---- MODULE Spec2Model ----
(***************************************************************************)
(* Workshop bay / mechanic scheduling (backend/app/routes/baybooking.py,   *)
(* backend/app/routes/booking.py, backend/app/models.py).                  *)
(*                                                                         *)
(* Time is an integer number of minutes since local midnight of day 0,     *)
(* which is a Monday (weekday 0).  The workshop's zone is taken to have a  *)
(* fixed offset, so astimezone() does not move an instant and the local    *)
(* date of instant t is t \div (24*60).                                    *)
(*                                                                         *)
(* Optional integers / strings / booleans that the code distinguishes      *)
(* from 0 (prices, vat, notes) are <<>> (None) or <<v>>.  Optional ids     *)
(* and the chain token are tested by truthiness in the code, so None is    *)
(* 0 (ids) or "" (token).                                                  *)
(***************************************************************************)
EXTENDS Integers, Sequences, FiniteSets, TLC

VARIABLES bookings, nextId, closures, workHours, timeOff, reqs, last

vars == <<bookings, nextId, closures, workHours, timeOff, reqs, last>>

(***************************************************************************)
(* Bounds of the model.                                                    *)
(***************************************************************************)
\* grid points 0..MaxTick, one hour apart, from which request times are drawn
MaxTick == 3
\* at most this many booking rows are stored at once
MaxBookings == 2

\* ids the store hands out
MaxId == MaxBookings + 1

None == <<>>
Some(v) == <<v>>

\* grid point k: 08:00 of day 0 plus k hours
Tick(k) == (8 + k) * 60

(***************************************************************************)
(* Catalogue rows that no modelled operation writes.                       *)
(***************************************************************************)
Workshops == {1, 2}

\* bay 1 has no limits; bay 2 takes passenger cars up to 2000 kg; bay 3
\* belongs to workshop 2.  0 is an unset limit, {} "all classes".
WorkshopBay ==
    [b \in {1, 2, 3} |->
        [workshop_id |-> IF b = 3 THEN 2 ELSE 1,
         supported_vehicle_classes |-> IF b = 2 THEN {"passenger_car"} ELSE {},
         max_length_mm |-> IF b = 2 THEN 5000 ELSE 0,
         max_width_mm  |-> IF b = 2 THEN 2200 ELSE 0,
         max_height_mm |-> IF b = 2 THEN 2100 ELSE 0,
         max_weight_kg |-> IF b = 2 THEN 2000 ELSE 0]]

Car ==
    [c \in {1, 2, 3} |->
        [registration_number |-> IF c = 1 THEN "ABC123" ELSE IF c = 2 THEN "TRK001" ELSE "VAN777"]]

\* car 1 has no VehicleProfile; car 2 is a heavy truck; car 3 a small car
VehicleProfile ==
    [c \in {2, 3} |->
        [vehicle_class |-> IF c = 2 THEN "truck" ELSE "passenger_car",
         length_mm |-> IF c = 2 THEN 8000 ELSE 4300,
         width_mm  |-> IF c = 2 THEN 2500 ELSE 1800,
         height_mm |-> IF c = 2 THEN 3500 ELSE 1500,
         weight_kg |-> IF c = 2 THEN 12000 ELSE 1400]]

\* users 1 and 2 are mechanics of workshop 1, user 3 is an owner
User ==
    [u \in {1, 2, 3} |->
        [role |-> IF u = 3 THEN "owner" ELSE "workshop_employee",
         workshops |-> {1}]]

ALLOWED_EMPLOYEE_ROLES == {"workshop_user", "workshop_employee"}

\* item 1 takes 60 minutes by default, the others have no default duration (0);
\* item 1 is billed by the hour, item 2 at a fixed price, item 3 is a
\* request-only hourly item without a rate, item 4 an hourly item with a
\* negative rate (no constraint forbids it), item 5 an hourly item at rate 0
WorkshopServiceItem ==
    [s \in 1..5 |->
        [workshop_id |-> 1,
         default_duration_min |-> IF s = 1 THEN 60 ELSE 0,
         price_type |-> IF s = 2 THEN "fixed" ELSE "hourly",
         hourly_rate_ore |-> CASE s = 1 -> Some(1001)
                               [] s = 4 -> Some(0 - 600)
                               [] s = 5 -> Some(0)
                               [] OTHER -> None]]

BookingStatus == {"booked", "in_progress", "completed", "cancelled", "no_show"}

(***************************************************************************)
(* Interval algebra and date helpers.                                      *)
(***************************************************************************)
Max2(a, b) == IF a >= b THEN a ELSE b
Min2(a, b) == IF a <= b THEN a ELSE b

\* baybooking.py _time_overlap
_time_overlap(a_start, a_end, b_start, b_end) == a_start < b_end /\ b_start < a_end

\* an overlap test that counts touching intervals
_overlap_Closed(a_start, a_end, b_start, b_end) == a_start <= b_end /\ b_start <= a_end

\* booking.py _overlap
_overlap(a_start, a_end, b_start, b_end) == a_start < b_end /\ b_start < a_end

\* _overlap_clause: the same test as a SQL filter
_overlap_clause(col_start, col_end, q_start, q_end) == col_start < q_end /\ q_start < col_end

\* local calendar date (day number) and weekday of an instant
LocalDate(t) == t \div (24 * 60)
Weekday(d) == d % 7
\* datetime.combine(the_date, time_of_day, tz)
Combine(d, tod) == d * (24 * 60) + tod

EffStart(b) == b.start_at - b.buffer_before_min
EffEnd(b) == b.end_at + b.buffer_after_min

\* two bookings whose effective intervals [start - before, end + after) overlap
EffOverlap(a, b) == EffStart(a) < EffEnd(b) /\ EffStart(b) < EffEnd(a)

(***************************************************************************)
(* The storage layer: constraints of the bay_bookings table.               *)
(***************************************************************************)
\* tstzrange(least(s,e), greatest(s,e)) && tstzrange(...): half-open ranges,
\* an empty range overlaps nothing
RangeOverlap(s1, e1, s2, e2) ==
    LET lo1 == Min2(s1, e1)  hi1 == Max2(s1, e1)
        lo2 == Min2(s2, e2)  hi2 == Max2(s2, e2)
    IN lo1 < hi1 /\ lo2 < hi2 /\ lo1 < hi2 /\ lo2 < hi1

\* ExcludeConstraint excl_bay_double_book
excl_bay_double_book(others, row) ==
    \A o \in others :
        ~(o.bay_id = row.bay_id /\ RangeOverlap(o.start_at, o.end_at, row.start_at, row.end_at))

\* ExcludeConstraint excl_user_double_book (WHERE assigned_user_id IS NOT NULL)
excl_user_double_book(others, row) ==
    row.assigned_user_id # 0 =>
        \A o \in others :
            ~(o.assigned_user_id = row.assigned_user_id
              /\ RangeOverlap(o.start_at, o.end_at, row.start_at, row.end_at))

OptNonNeg(x) == x = None \/ x[1] >= 0

\* the CHECK constraints and foreign keys of the table
RowChecks(row) ==
    /\ row.end_at > row.start_at
    /\ row.vat_percent = None \/ (row.vat_percent[1] >= 0 /\ row.vat_percent[1] <= 100)
    /\ OptNonNeg(row.price_net_ore) /\ OptNonNeg(row.price_gross_ore) /\ OptNonNeg(row.final_price_ore)
    /\ OptNonNeg(row.actual_minutes_spent)
    /\ row.workshop_id \in Workshops
    /\ row.bay_id \in DOMAIN WorkshopBay
    /\ row.car_id = 0 \/ row.car_id \in DOMAIN Car
    /\ row.assigned_user_id = 0 \/ row.assigned_user_id \in DOMAIN User
    /\ row.service_item_id = 0 \/ row.service_item_id \in DOMAIN WorkshopServiceItem
    /\ row.status \in BookingStatus

\* db.commit() of an inserted or updated row succeeds (no IntegrityError)
DbAccepts(bks, row) ==
    LET others == {o \in bks : o.id # row.id}
    IN /\ RowChecks(row)
       /\ excl_bay_double_book(others, row)
       /\ excl_user_double_book(others, row)

(***************************************************************************)
(* baybooking.py: validation helpers.                                      *)
(***************************************************************************)
\* 200 when workshop and bay exist and belong together, else the error code
_ensure_workshop_and_bay(workshop_id, bay_id) ==
    IF workshop_id \notin Workshops THEN 404
    ELSE IF bay_id \notin DOMAIN WorkshopBay THEN 404
    ELSE IF WorkshopBay[bay_id].workshop_id # workshop_id THEN 400
    ELSE 200

\* the class / dimension comparison shared by both _validate_vehicle_vs_bay
ProfileFitsBay(bay, profile) ==
    /\ ~(bay.supported_vehicle_classes # {} /\ profile.vehicle_class \notin bay.supported_vehicle_classes)
    /\ ~(bay.max_length_mm # 0 /\ profile.length_mm # 0 /\ profile.length_mm > bay.max_length_mm)
    /\ ~(bay.max_width_mm  # 0 /\ profile.width_mm  # 0 /\ profile.width_mm  > bay.max_width_mm)
    /\ ~(bay.max_height_mm # 0 /\ profile.height_mm # 0 /\ profile.height_mm > bay.max_height_mm)
    /\ ~(bay.max_weight_kg # 0 /\ profile.weight_kg # 0 /\ profile.weight_kg > bay.max_weight_kg)

\* _validate_vehicle_vs_bay(db, bay, car_id): 200 or 400
_validate_vehicle_vs_bay(bay_id, car_id) ==
    IF car_id = 0 THEN 200
    ELSE IF car_id \notin DOMAIN VehicleProfile THEN 200
    ELSE IF ProfileFitsBay(WorkshopBay[bay_id], VehicleProfile[car_id]) THEN 200
    ELSE 400

\* _assert_no_conflicts: the effective interval of the incoming booking
NewEffStart(start_at, buffer_before_min) == start_at - buffer_before_min

\* NewEffEnd with the incoming booking's buffer_after left out
NewEffEnd_NoBuffer(end_at, buffer_after_min) == end_at

NewEffEnd(end_at, buffer_after_min) == end_at + buffer_after_min

\* _assert_no_conflicts: 200 when nothing is raised, else 400 / 409.
\* booking_id = 0 stands for None.
_assert_no_conflicts(bks, cls, booking_id, bay_id, start_at, end_at, buffer_before_min, buffer_after_min) ==
    LET new_eff_start == NewEffStart(start_at, buffer_before_min)
        new_eff_end == NewEffEnd(end_at, buffer_after_min)
        q == {o \in bks : o.bay_id = bay_id /\ (booking_id # 0 => o.id # booking_id)}
    IN IF end_at <= start_at THEN 400
       ELSE IF \E other \in q :
                  _time_overlap(new_eff_start, new_eff_end, EffStart(other), EffEnd(other))
            THEN 409
       ELSE IF \E c \in cls :
                  c.bay_id = bay_id /\ _overlap_clause(c.start_at, c.end_at, new_eff_start, new_eff_end)
            THEN 409
       ELSE 200

\* the checks of _create_booking_core before the row is built
CreatePrecheck(bks, cls, payload) ==
    LET c1 == _ensure_workshop_and_bay(payload.workshop_id, payload.bay_id)
    IN IF c1 # 200 THEN c1
       ELSE LET c2 == _validate_vehicle_vs_bay(payload.bay_id, payload.car_id)
            IN IF c2 # 200 THEN c2
               ELSE _assert_no_conflicts(bks, cls, 0, payload.bay_id,
                                         payload.start_at, payload.end_at,
                                         payload.buffer_before_min, payload.buffer_after_min)

\* the BayBooking row _create_booking_core builds from a BayBookingCreate
NewBooking(payload, id) ==
    [id |-> id,
     workshop_id |-> payload.workshop_id,
     bay_id |-> payload.bay_id,
     start_at |-> payload.start_at,
     end_at |-> payload.end_at,
     buffer_before_min |-> payload.buffer_before_min,
     buffer_after_min |-> payload.buffer_after_min,
     status |-> IF payload.status = "" THEN "booked" ELSE payload.status,
     car_id |-> payload.car_id,
     assigned_user_id |-> payload.assigned_user_id,
     service_item_id |-> payload.service_item_id,
     price_net_ore |-> payload.price_net_ore,
     price_gross_ore |-> payload.price_gross_ore,
     vat_percent |-> payload.vat_percent,
     price_note |-> payload.price_note,
     price_is_custom |-> payload.price_is_custom,
     final_price_ore |-> None,
     actual_minutes_spent |-> None,
     chain_token |-> payload.chain_token]

(***************************************************************************)
(* booking.py: calendar builder and conflict detector.                     *)
(***************************************************************************)
\* lexicographic order of (start, end) pairs, as Python orders tuples
PairLess(p, q) == p[1] < q[1] \/ (p[1] = q[1] /\ p[2] < q[2])

RECURSIVE SortPairs(_)
\* sorted(list of pairs); equal pairs collapse, which no caller can observe
SortPairs(S) ==
    IF S = {} THEN <<>>
    ELSE LET m == CHOOSE p \in S : \A q \in S : q = p \/ PairLess(p, q)
         IN <<m>> \o SortPairs(S \ {m})

\* one step of the merge loop of _user_work_windows_for_date
MergeStep(merged, w) ==
    IF merged = <<>> \/ w[1] >= merged[Len(merged)][2]
    THEN Append(merged, w)
    ELSE [merged EXCEPT ![Len(merged)] = <<merged[Len(merged)][1], Max2(merged[Len(merged)][2], w[2])>>]

RECURSIVE MergeWindows(_, _)
MergeWindows(merged, wins) ==
    IF wins = <<>> THEN merged
    ELSE MergeWindows(MergeStep(merged, Head(wins)), Tail(wins))

\* _user_work_windows_for_date: the merged windows of one local date
_user_work_windows_for_date(whs, user_id, the_date) ==
    LET rows == {r \in whs : r.user_id = user_id /\ r.weekday = Weekday(the_date)}
        valid == {r \in rows : ~(r.valid_from # None /\ the_date < r.valid_from[1])
                               /\ ~(r.valid_to # None /\ the_date > r.valid_to[1])}
        wins == {<<Combine(the_date, r.start_time), Combine(the_date, r.end_time)>> : r \in valid}
    IN MergeWindows(<<>>, SortPairs(wins))

SeqToSet(s) == {s[i] : i \in 1..Len(s)}

\* the windows of the local dates of start_at and end_at (d1, and d2 when it differs)
WindowsAround(whs, user_id, start_at, end_at) ==
    LET d1 == LocalDate(start_at)
        d2 == LocalDate(end_at)
    IN SeqToSet(_user_work_windows_for_date(whs, user_id, d1))
       \cup (IF d2 # d1 THEN SeqToSet(_user_work_windows_for_date(whs, user_id, d2)) ELSE {})

\* _user_timeoff_overlaps: closed ranges '[]' on both sides
_user_timeoff_overlaps(tos, user_id, start_at, end_at) ==
    \E t \in tos :
        /\ t.user_id = user_id
        /\ Min2(start_at, end_at) <= Max2(t.start_at, t.end_at)
        /\ Min2(t.start_at, t.end_at) <= Max2(start_at, end_at)

\* _user_is_available
_user_is_available(bks, whs, tos, user_id, start_at, end_at) ==
    IF end_at <= start_at THEN FALSE
    ELSE IF ~(\E w \in WindowsAround(whs, user_id, start_at, end_at) : w[1] <= start_at /\ end_at <= w[2])
         THEN FALSE
    ELSE IF _user_timeoff_overlaps(tos, user_id, start_at, end_at) THEN FALSE
    ELSE LET assigned == {b \in bks : b.assigned_user_id = user_id
                                      /\ ~(b.end_at <= start_at \/ b.start_at >= end_at)}
         IN ~(\E b \in assigned :
                ~((b.end_at + b.buffer_after_min) <= start_at \/ (b.start_at - b.buffer_before_min) >= end_at))

\* minutes the booking query of _bay_slot_is_free looks around the slot
BAY_LOOKAROUND_MIN == 120

\* BaySlotCandidates that leaves cancelled and no-show rows out
BaySlotCandidates_Active(bks, bay_id, start_at, end_at) ==
    {b \in bks : b.bay_id = bay_id
                 /\ b.status \notin {"cancelled", "no_show"}
                 /\ _overlap_clause(b.start_at, b.end_at,
                                    start_at - BAY_LOOKAROUND_MIN, end_at + BAY_LOOKAROUND_MIN)}

\* the rows the first query of _bay_slot_is_free loads
BaySlotCandidates(bks, bay_id, start_at, end_at) ==
    {b \in bks : b.bay_id = bay_id
                 /\ _overlap_clause(b.start_at, b.end_at,
                                    start_at - BAY_LOOKAROUND_MIN, end_at + BAY_LOOKAROUND_MIN)}

\* _bay_slot_is_free (include_buffers is not read by the code)
_bay_slot_is_free(bks, cls, bay_id, start_at, end_at) ==
    IF \E b \in BaySlotCandidates(bks, bay_id, start_at, end_at) :
           _overlap(start_at, end_at, EffStart(b), EffEnd(b))
    THEN FALSE
    ELSE ~(\E c \in cls : c.bay_id = bay_id /\ _overlap_clause(c.start_at, c.end_at, start_at, end_at))

RECURSIVE SubtractBlocks(_, _, _, _)
\* the inner loop of _segment_subtract for one base segment ending at e
SubtractBlocks(cur, e, blocks, out) ==
    IF blocks = <<>> THEN (IF cur < e THEN Append(out, <<cur, e>>) ELSE out)
    ELSE LET bs == Head(blocks)[1]
             be == Head(blocks)[2]
         IN IF be <= cur \/ bs >= e THEN SubtractBlocks(cur, e, Tail(blocks), out)
            ELSE LET out2 == IF bs > cur THEN Append(out, <<cur, bs>>) ELSE out
                     cur2 == Max2(cur, be)
                 IN IF cur2 >= e THEN out2
                    ELSE SubtractBlocks(cur2, e, Tail(blocks), out2)

RECURSIVE SubtractAll(_, _)
SubtractAll(base, blocks) ==
    IF base = <<>> THEN <<>>
    ELSE SubtractBlocks(Head(base)[1], Head(base)[2], blocks, <<>>) \o SubtractAll(Tail(base), blocks)

\* a subtraction that walks the blocks from the last to the first
_segment_subtract_Unsorted(base, blocks) ==
    LET srt == SortPairs(blocks)
    IN SelectSeq(SubtractAll(base, [i \in 1..Len(srt) |-> srt[Len(srt) + 1 - i]]),
                 LAMBDA p : p[2] > p[1])

\* _segment_subtract: base is a sorted list, blocks a collection sorted inside
_segment_subtract(base, blocks) ==
    IF base = <<>> THEN <<>>
    ELSE SelectSeq(SubtractAll(base, SortPairs(blocks)), LAMBDA p : p[2] > p[1])

\* _user_free_segments: working windows minus time off minus buffered bookings
_user_free_segments(bks, whs, tos, user_id, seg_start, seg_end) ==
    LET days == LocalDate(seg_start)..LocalDate(seg_end)
        wins == UNION {SeqToSet(_user_work_windows_for_date(whs, user_id, d)) : d \in days}
        work_wins == {<<Max2(seg_start, w[1]), Min2(seg_end, w[2])>> :
                         w \in {x \in wins : Min2(seg_end, x[2]) > Max2(seg_start, x[1])}}
        off == {t \in tos : t.user_id = user_id
                            /\ _overlap_clause(t.start_at, t.end_at, seg_start, seg_end)}
        off_blocks == {<<Max2(seg_start, t.start_at), Min2(seg_end, t.end_at)>> : t \in off}
        assigned == {b \in bks : b.assigned_user_id = user_id
                                 /\ _overlap_clause(b.start_at, b.end_at,
                                                    seg_start - 120, seg_end + 120)}
        bk_blocks == {blk \in {<<Max2(EffStart(b), seg_start), Min2(EffEnd(b), seg_end)>> : b \in assigned} :
                         blk[2] > blk[1]}
    IN IF work_wins = {} THEN <<>>
       ELSE _segment_subtract(SortPairs(work_wins), off_blocks \cup bk_blocks)

(***************************************************************************)
(* booking.py: auto_schedule.                                              *)
(***************************************************************************)
\* _get_car_by_reg: the car id, 0 when the number is empty or unknown
_get_car_by_reg(reg) ==
    IF reg = "" THEN 0
    ELSE IF \E c \in DOMAIN Car : Car[c].registration_number = reg
         THEN CHOOSE c \in DOMAIN Car : Car[c].registration_number = reg
         ELSE 0

\* the car auto_schedule resolves: -1 when car_id is given and unknown (404)
AutoCar(payload) ==
    IF payload.car_id # 0
    THEN (IF payload.car_id \in DOMAIN Car THEN payload.car_id ELSE -1)
    ELSE IF payload.registration_number # "" THEN _get_car_by_reg(payload.registration_number)
    ELSE 0

\* _ensure_workshop followed by _ensure_bay_in_workshop
_ensure_bay_in_workshop(workshop_id, bay_id) ==
    IF workshop_id \notin Workshops THEN 404
    ELSE IF bay_id \notin DOMAIN WorkshopBay THEN 404
    ELSE IF WorkshopBay[bay_id].workshop_id # workshop_id THEN 400
    ELSE 200

\* the chain master: the booking with the token and the lowest id ({} when none)
ChainMaster(bks, chain_token) ==
    IF chain_token = "" THEN {}
    ELSE {m \in bks : m.chain_token = chain_token
                      /\ \A o \in bks : o.chain_token = chain_token => m.id <= o.id}

\* the consistency checks against the chain master: 200 or 400
ChainCheck(bks, payload, car) ==
    IF ChainMaster(bks, payload.chain_token) = {} THEN 200
    ELSE LET chain_master == CHOOSE m \in ChainMaster(bks, payload.chain_token) : TRUE
         IN IF chain_master.workshop_id # payload.workshop_id THEN 400
            ELSE IF chain_master.car_id # 0 /\ (car # 0 /\ chain_master.car_id # car) THEN 400
            ELSE IF chain_master.service_item_id # 0 /\ payload.service_item_id # 0
                    /\ chain_master.service_item_id # payload.service_item_id THEN 400
            ELSE 200

\* _employees_in_workshop
_employees_in_workshop(workshop_id) ==
    {u \in DOMAIN User : workshop_id \in User[u].workshops /\ User[u].role \in ALLOWED_EMPLOYEE_ROLES}

\* the re-validation of the assigned mechanic: 200, 404, 400 or 409
AutoUserCheck(bks, whs, tos, payload) ==
    IF payload.assigned_user_id = 0 THEN 200
    ELSE IF payload.assigned_user_id \notin DOMAIN User THEN 404
    ELSE IF User[payload.assigned_user_id].role \notin ALLOWED_EMPLOYEE_ROLES THEN 400
    ELSE IF ~_user_is_available(bks, whs, tos, payload.assigned_user_id, payload.start_at, payload.end_at)
         THEN 409
    ELSE 200

\* the price validation: 200 or 400
AutoPriceCheck(payload) ==
    IF payload.vat_percent # None /\ ~(0 <= payload.vat_percent[1] /\ payload.vat_percent[1] <= 100) THEN 400
    ELSE IF payload.price_net_ore # None /\ payload.price_net_ore[1] < 0 THEN 400
    ELSE IF payload.price_gross_ore # None /\ payload.price_gross_ore[1] < 0 THEN 400
    ELSE 200

\* everything auto_schedule does before it builds the row, in the code's order:
\* 200 when the request goes on to _create_booking_core, else the error code
AutoScheduleChecks(bks, cls, whs, tos, payload) ==
    LET c1 == _ensure_bay_in_workshop(payload.workshop_id, payload.bay_id)
        car == AutoCar(payload)
    IN IF c1 # 200 THEN c1
       ELSE IF payload.end_at <= payload.start_at THEN 400
       ELSE IF car = -1 THEN 404
       ELSE IF _validate_vehicle_vs_bay(payload.bay_id, car) # 200 THEN 400
       ELSE IF ~_bay_slot_is_free(bks, cls, payload.bay_id, payload.start_at, payload.end_at) THEN 409
       ELSE IF AutoUserCheck(bks, whs, tos, payload) # 200 THEN AutoUserCheck(bks, whs, tos, payload)
       ELSE IF AutoPriceCheck(payload) # 200 THEN 400
       ELSE ChainCheck(bks, payload, car)

\* "step = 15": the shift between two alternatives tried for the same mechanic
AlternativeStep == 15

\* the shifts tried when the bay is taken: range(1, 5)
AlternativeShifts == 1..4

\* the shifts at which the bay is free and the requested mechanic available
FreeShifts(bks, cls, whs, tos, payload) ==
    {k \in AlternativeShifts :
        /\ _bay_slot_is_free(bks, cls, payload.bay_id, payload.start_at + AlternativeStep * k,
                             payload.end_at + AlternativeStep * k)
        /\ payload.assigned_user_id \in DOMAIN User
        /\ _user_is_available(bks, whs, tos, payload.assigned_user_id,
                              payload.start_at + AlternativeStep * k,
                              payload.end_at + AlternativeStep * k)}

\* the alternatives of the bay conflict: the first free shift of the same
\* mechanic (the loop breaks at the first hit), none without a mechanic
BayAlternatives(bks, cls, whs, tos, payload) ==
    LET ks == FreeShifts(bks, cls, whs, tos, payload)
    IN IF payload.assigned_user_id = 0 \/ ks = {} THEN {<<>>}
       ELSE LET k == CHOOSE x \in ks : \A y \in ks : x <= y
            IN {<<[user_id |-> payload.assigned_user_id, bay_id |-> payload.bay_id,
                   start_at |-> payload.start_at + AlternativeStep * k,
                   end_at |-> payload.end_at + AlternativeStep * k,
                   reason |-> "same mechanic; next free"]>>}

\* the alternatives of the mechanic conflict: the first other employee who is
\* available in the same slot; the query has no ORDER BY, so any of them
UserAlternatives(bks, whs, tos, payload) ==
    LET others == {u2 \in _employees_in_workshop(payload.workshop_id) :
                      /\ u2 # payload.assigned_user_id
                      /\ _user_is_available(bks, whs, tos, u2, payload.start_at, payload.end_at)}
    IN IF others = {} THEN {<<>>}
       ELSE {<<[user_id |-> u2, bay_id |-> payload.bay_id,
                start_at |-> payload.start_at, end_at |-> payload.end_at,
                reason |-> "same slot; different mechanic"]>> : u2 \in others}

\* the answers a refused request can get: the 409 of auto_schedule's own
\* re-validation carries the alternatives, every other error only its code
ErrorAnswers(bks, cls, whs, tos, kind, payload, code) ==
    IF kind = "auto_schedule" /\ AutoScheduleChecks(bks, cls, whs, tos, payload) = 409
    THEN {[op |-> kind, code |-> 409, alternatives |-> a] :
             a \in IF ~_bay_slot_is_free(bks, cls, payload.bay_id, payload.start_at, payload.end_at)
                   THEN BayAlternatives(bks, cls, whs, tos, payload)
                   ELSE UserAlternatives(bks, whs, tos, payload)}
    ELSE {[op |-> kind, code |-> code]}

\* StripPrice that forgets to pop price_note
StripPrice_KeepNote(data) ==
    [data EXCEPT !.price_net_ore = None, !.price_gross_ore = None, !.price_is_custom = None]

\* the price fields of the new part once a master exists (popped from data)
StripPrice(data) ==
    [data EXCEPT !.price_net_ore = None, !.price_gross_ore = None,
                 !.price_note = None, !.price_is_custom = None]

\* InheritFromMaster that propagates the car only
InheritFromMaster_CarOnly(data, chain_master) ==
    [data EXCEPT
        !.car_id = IF chain_master.car_id # 0 /\ data.car_id = 0
                   THEN chain_master.car_id ELSE data.car_id]

\* car and service item taken from the master when the part has none
InheritFromMaster(data, chain_master) ==
    [data EXCEPT
        !.car_id = IF chain_master.car_id # 0 /\ data.car_id = 0
                   THEN chain_master.car_id ELSE data.car_id,
        !.service_item_id = IF chain_master.service_item_id # 0 /\ data.service_item_id = 0
                            THEN chain_master.service_item_id ELSE data.service_item_id]

\* the BayBookingCreate auto_schedule hands to _create_booking_core
AutoScheduleData(bks, payload) ==
    LET car == AutoCar(payload)
        data == [payload EXCEPT !.car_id = IF car # 0 THEN car ELSE payload.car_id,
                                !.status = "booked"]
        master == ChainMaster(bks, payload.chain_token)
    IN IF master = {} THEN data
       ELSE InheritFromMaster(StripPrice(data), CHOOSE m \in master : TRUE)

(***************************************************************************)
(* State after construction and the request handlers.                      *)
(***************************************************************************)
Slots == {1, 2}

IdleReq == [pc |-> "idle"]

\* users.py set_office_hours: Monday to Friday 08:00-17:00
OfficeHours(user_id) ==
    {[user_id |-> user_id, weekday |-> wd, start_time |-> 8 * 60, end_time |-> 17 * 60,
      valid_from |-> None, valid_to |-> None] : wd \in 0..4}

BasePayload ==
    [workshop_id |-> 1, bay_id |-> 1, start_at |-> Tick(0), end_at |-> Tick(1),
     buffer_before_min |-> 0, buffer_after_min |-> 0, status |-> "",
     car_id |-> 0, registration_number |-> "", assigned_user_id |-> 0, service_item_id |-> 0,
     price_net_ore |-> None, price_gross_ore |-> None, vat_percent |-> None,
     price_note |-> None, price_is_custom |-> None, chain_token |-> ""]

\* empty tables, both mechanics on office hours, no request in flight
Init ==
    /\ bookings = {}
    /\ nextId = 1
    /\ closures = {}
    /\ workHours = OfficeHours(1) \cup OfficeHours(2)
    /\ timeOff = {}
    /\ reqs = [s \in Slots |-> IdleReq]
    /\ last = [op |-> "init", code |-> 0]

\* the handler up to (not including) db.add/db.commit: the response code so far
\* and the BayBookingCreate that reaches _create_booking_core
RequestCheck(kind, payload) ==
    IF kind = "auto_schedule"
    THEN LET c == AutoScheduleChecks(bookings, closures, workHours, timeOff, payload)
         IN IF c # 200 THEN [code |-> c, create |-> payload]
            ELSE LET d == AutoScheduleData(bookings, payload)
                 IN [code |-> CreatePrecheck(bookings, closures, d), create |-> d]
    ELSE [code |-> CreatePrecheck(bookings, closures, payload), create |-> payload]

\* a whole create_booking / auto_schedule request, executed without interleaving
CreateRequest(kind, payload) ==
    LET chk == RequestCheck(kind, payload)
        row == NewBooking(chk.create, nextId)
    IN /\ IF chk.code # 200
          THEN /\ last' \in ErrorAnswers(bookings, closures, workHours, timeOff,
                                          kind, payload, chk.code)
               /\ UNCHANGED <<bookings, nextId>>
          ELSE IF ~DbAccepts(bookings, row)
          THEN /\ last' = [op |-> kind, code |-> 500]
               /\ UNCHANGED <<bookings, nextId>>
          ELSE /\ Cardinality(bookings) < MaxBookings
               /\ nextId <= MaxId
               /\ bookings' = bookings \cup {row}
               /\ nextId' = nextId + 1
               /\ last' = [op |-> kind, code |-> 200]
       /\ UNCHANGED <<closures, workHours, timeOff, reqs>>

\* POST /create
create_booking(payload) == CreateRequest("create_booking", payload)

\* POST /auto-schedule
auto_schedule(payload) == CreateRequest("auto_schedule", payload)

\* setattr(booking, field, data[field]) for every field sent
ApplyUpdate(booking, data) ==
    [f \in DOMAIN booking |-> IF f \in DOMAIN data THEN data[f] ELSE booking[f]]

\* the validation of update_booking on the values already assigned: 200 or the error
UpdateCheck(bks, cls, new) ==
    LET c1 == _ensure_workshop_and_bay(new.workshop_id, new.bay_id)
    IN IF c1 # 200 THEN c1
       ELSE LET c2 == _validate_vehicle_vs_bay(new.bay_id, new.car_id)
            IN IF c2 # 200 THEN c2
               ELSE _assert_no_conflicts(bks, cls, new.id, new.bay_id, new.start_at, new.end_at,
                                         new.buffer_before_min, new.buffer_after_min)

\* a session whose assignments reach the table although the request failed
AfterFailedUpdate_Kept(bks, booking, new) == (bks \ {booking}) \cup {new}

\* get_db: db.close() ends a request that raised before db.commit(); the
\* session does not autoflush, so the values assigned to the booking are dropped
AfterFailedUpdate(bks, booking, new) == bks

\* PUT /edit/{booking_id}
update_booking(booking_id, data) ==
    /\ IF ~(\E b \in bookings : b.id = booking_id)
       THEN /\ last' = [op |-> "update_booking", code |-> 404]
            /\ UNCHANGED bookings
       ELSE LET booking == CHOOSE b \in bookings : b.id = booking_id
                new == ApplyUpdate(booking, data)
                c == UpdateCheck(bookings, closures, new)
            IN IF c # 200
               THEN /\ last' = [op |-> "update_booking", code |-> c]
                    /\ bookings' = AfterFailedUpdate(bookings, booking, new)
               ELSE IF ~DbAccepts(bookings, new)
               THEN /\ last' = [op |-> "update_booking", code |-> 500]
                    /\ bookings' = AfterFailedUpdate(bookings, booking, new)
               ELSE /\ bookings' = (bookings \ {booking}) \cup {new}
                    /\ last' = [op |-> "update_booking", code |-> 200]
    /\ UNCHANGED <<nextId, closures, workHours, timeOff, reqs>>

\* PATCH /status/{booking_id}
set_status(booking_id, status) ==
    /\ IF ~(\E b \in bookings : b.id = booking_id)
       THEN /\ last' = [op |-> "set_status", code |-> 404]
            /\ UNCHANGED bookings
       ELSE LET booking == CHOOSE b \in bookings : b.id = booking_id
            IN /\ bookings' = (bookings \ {booking}) \cup {[booking EXCEPT !.status = status]}
               /\ last' = [op |-> "set_status", code |-> 200]
    /\ UNCHANGED <<nextId, closures, workHours, timeOff, reqs>>

\* DELETE /delete/{booking_id}
delete_booking(booking_id) ==
    /\ IF ~(\E b \in bookings : b.id = booking_id)
       THEN /\ last' = [op |-> "delete_booking", code |-> 404]
            /\ UNCHANGED bookings
       ELSE /\ bookings' = {b \in bookings : b.id # booking_id}
            /\ last' = [op |-> "delete_booking", code |-> 204]
    /\ UNCHANGED <<nextId, closures, workHours, timeOff, reqs>>

(***************************************************************************)
(* Sequential executions: every handler runs to completion on its own.     *)
(***************************************************************************)
SeqBuffers == {0, 60}

\* one-hour slots on the grid, and one interval that ends where it starts
SeqIntervals == {<<Tick(i), Tick(i + 1)>> : i \in 0..(MaxTick - 1)} \cup {<<Tick(1), Tick(1)>>}

SeqPayloads ==
    {[BasePayload EXCEPT !.bay_id = b, !.start_at = iv[1], !.end_at = iv[2],
                         !.buffer_after_min = ba] :
        b \in {1, 2}, iv \in SeqIntervals, ba \in SeqBuffers}

SeqStatuses == {"cancelled"}

SeqUpdates ==
    {[start_at |-> iv[1], end_at |-> iv[2]] : iv \in SeqIntervals}
    \cup {[bay_id |-> b] : b \in {1, 2, 3}}
    \cup {[buffer_before_min |-> bb] : bb \in SeqBuffers}
    \cup {[buffer_after_min |-> ba] : ba \in SeqBuffers}

SeqNext ==
    \/ \E p \in SeqPayloads : create_booking(p)
    \/ \E p \in SeqPayloads : auto_schedule(p)
    \/ \E id \in 1..MaxId, d \in SeqUpdates : update_booking(id, d)
    \/ \E id \in 1..MaxId, st \in SeqStatuses : set_status(id, st)
    \/ \E id \in 1..MaxId : delete_booking(id)

SeqSpec == Init /\ [][SeqNext]_vars

(***************************************************************************)
(* Sequential executions with an assigned mechanic.                        *)
(***************************************************************************)
MechPayloads ==
    {[BasePayload EXCEPT !.bay_id = b, !.start_at = iv[1], !.end_at = iv[2],
                         !.buffer_after_min = ba, !.assigned_user_id = u] :
        b \in {1, 2}, iv \in SeqIntervals, ba \in SeqBuffers, u \in {0, 1}}

MechUpdates ==
    {[start_at |-> iv[1], end_at |-> iv[2]] : iv \in SeqIntervals}
    \cup {[assigned_user_id |-> u] : u \in {0, 1, 2}}
    \cup {[buffer_before_min |-> bb] : bb \in SeqBuffers}

MechNext ==
    \/ \E p \in MechPayloads : create_booking(p)
    \/ \E p \in MechPayloads : auto_schedule(p)
    \/ \E id \in 1..MaxId, d \in MechUpdates : update_booking(id, d)

MechSpec == Init /\ [][MechNext]_vars

(***************************************************************************)
(* Concurrent create requests.  A request first runs every read and check  *)
(* of its handler (Check) and later adds and commits its row (Commit); the *)
(* store evaluates its constraints at the commit.                          *)
(***************************************************************************)
\* the handler of client s up to db.add: all validation and conflict reads
Check(s, kind, payload) ==
    /\ reqs[s].pc = "idle"
    /\ LET chk == RequestCheck(kind, payload)
       IN reqs' = [reqs EXCEPT ![s] =
                     [pc |-> IF chk.code = 200 THEN "pending" ELSE "done",
                      kind |-> kind,
                      payload |-> payload,
                      create |-> chk.create,
                      code |-> IF chk.code = 200 THEN 0 ELSE chk.code,
                      id |-> 0,
                      passed |-> (chk.code = 200),
                      master |-> ChainMaster(bookings, payload.chain_token),
                      conc |-> {}]]
    /\ UNCHANGED <<bookings, nextId, closures, workHours, timeOff, last>>

\* db.add(booking); db.commit(): an IntegrityError is not caught by
\* _create_booking_core, by auto_schedule or by the application (main.py),
\* so the client is answered 500
Commit(s) ==
    /\ reqs[s].pc = "pending"
    /\ LET row == NewBooking(reqs[s].create, nextId)
           others == {t \in Slots \ {s} : reqs[t].pc = "pending"}
       IN IF DbAccepts(bookings, row)
          THEN /\ bookings' = bookings \cup {row}
               /\ nextId' = nextId + 1
               /\ reqs' = [reqs EXCEPT ![s].pc = "done", ![s].code = 200, ![s].id = nextId,
                                       ![s].conc = others]
          ELSE /\ reqs' = [reqs EXCEPT ![s].pc = "done", ![s].code = 500, ![s].conc = others]
               /\ UNCHANGED <<bookings, nextId>>
    /\ UNCHANGED <<closures, workHours, timeOff, last>>

\* two adjacent one-hour slots
ConcIntervals == {<<Tick(0), Tick(1)>>, <<Tick(1), Tick(2)>>}

ConcPayloads ==
    {[BasePayload EXCEPT !.bay_id = b, !.start_at = iv[1], !.end_at = iv[2],
                         !.buffer_after_min = ba, !.assigned_user_id = u] :
        b \in {1, 2}, iv \in ConcIntervals, ba \in SeqBuffers, u \in {0, 1}}

Next ==
    \/ \E s \in Slots, kind \in {"create_booking", "auto_schedule"}, p \in ConcPayloads :
          Check(s, kind, p)
    \/ \E s \in Slots : Commit(s)

Spec == Init /\ [][Next]_vars

Done(s) == reqs[s].pc = "done"

\* the two requests were both between Check and Commit at the same time
Concurrent(s, t) == t \in reqs[s].conc \/ s \in reqs[t].conc

\* C1: two auto_schedule requests for the identical bay and [start_at, end_at)
\* that run concurrently from a state where the slot is free end with exactly
\* one booking committed and the other request answered 409.
C1_OneCommitsOtherConflict ==
    \A s \in Slots : \A t \in Slots :
        ( /\ s # t /\ Done(s) /\ Done(t)
          /\ reqs[s].kind = "auto_schedule" /\ reqs[t].kind = "auto_schedule"
          /\ reqs[s].passed
          /\ reqs[s].payload.bay_id = reqs[t].payload.bay_id
          /\ reqs[s].payload.start_at = reqs[t].payload.start_at
          /\ reqs[s].payload.end_at = reqs[t].payload.end_at )
        => \/ reqs[s].code = 200 /\ reqs[t].code = 409
           \/ reqs[s].code = 409 /\ reqs[t].code = 200

\* C4: of two create requests for the same bay (or the same mechanic) that both
\* passed the pre-check and were in flight together, at most one commits when
\* their effective intervals overlap, raw intervals disjoint included.
C4_StoreArbitratesEffective ==
    \A s \in Slots : \A t \in Slots :
        ( /\ s # t /\ Done(s) /\ Done(t)
          /\ reqs[s].passed /\ reqs[t].passed
          /\ Concurrent(s, t)
          /\ \/ reqs[s].create.bay_id = reqs[t].create.bay_id
             \/ /\ reqs[s].create.assigned_user_id # 0
                /\ reqs[s].create.assigned_user_id = reqs[t].create.assigned_user_id
          /\ EffOverlap(reqs[s].create, reqs[t].create) )
        => ~(reqs[s].code = 200 /\ reqs[t].code = 200)

(***************************************************************************)
(* users.py: schedules of mechanics.                                       *)
(***************************************************************************)
ALLOWED_SCHEDULE_ROLES == {"workshop_user", "workshop_employee"}

\* _get_user_or_404 and _assert_user_can_have_schedule
ScheduleUserCheck(user_id) ==
    IF user_id \notin DOMAIN User THEN 404
    ELSE IF User[user_id].role \notin ALLOWED_SCHEDULE_ROLES THEN 400
    ELSE 200

\* POST /{user_id}/working-hours (the schema has already required end_time > start_time)
create_working_hours(user_id, payload) ==
    LET c == IF ScheduleUserCheck(user_id) # 200 THEN ScheduleUserCheck(user_id)
             ELSE IF payload.user_id # user_id THEN 400 ELSE 200
    IN /\ workHours' = IF c = 200 THEN workHours \cup {payload} ELSE workHours
       /\ last' = [op |-> "create_working_hours", code |-> c]
       /\ UNCHANGED <<bookings, nextId, closures, timeOff, reqs>>

\* POST /{user_id}/working-hours/preset/office
set_office_hours(user_id) ==
    LET c == ScheduleUserCheck(user_id)
    IN /\ workHours' = IF c = 200
                       THEN {r \in workHours : r.user_id # user_id} \cup OfficeHours(user_id)
                       ELSE workHours
       /\ last' = [op |-> "set_office_hours", code |-> c]
       /\ UNCHANGED <<bookings, nextId, closures, timeOff, reqs>>

\* POST /{user_id}/time-off
create_time_off(user_id, payload) ==
    LET c == IF ScheduleUserCheck(user_id) # 200 THEN ScheduleUserCheck(user_id)
             ELSE IF payload.user_id # user_id THEN 400
             ELSE IF payload.end_at <= payload.start_at THEN 400 ELSE 200
    IN /\ timeOff' = IF c = 200 THEN timeOff \cup {payload} ELSE timeOff
       /\ last' = [op |-> "create_time_off", code |-> c]
       /\ UNCHANGED <<bookings, nextId, closures, workHours, reqs>>

(***************************************************************************)
(* Bays: what _bay_slot_is_free answers in the states the handlers reach.  *)
(***************************************************************************)
BayBuffers == {0, 60, 180}

\* bay 2 may be closed for an hour
BayClosures == {[bay_id |-> 2, start_at |-> Tick(1), end_at |-> Tick(2)]}

BayInit ==
    /\ bookings = {}
    /\ nextId = 1
    /\ closures \in SUBSET BayClosures
    /\ workHours = OfficeHours(1) \cup OfficeHours(2)
    /\ timeOff = {}
    /\ reqs = [s \in Slots |-> IdleReq]
    /\ last = [op |-> "init", code |-> 0]

BayPayloads ==
    {[BasePayload EXCEPT !.bay_id = b, !.start_at = Tick(i), !.end_at = Tick(i + 1),
                         !.buffer_before_min = bb, !.buffer_after_min = ba] :
        b \in {1, 2}, i \in 0..(MaxTick - 1), bb \in {0, 60}, ba \in BayBuffers}

\* the intervals asked about: every hour up to one hour after the last tick
BayQueries == {<<Tick(i), Tick(i + 1)>> : i \in 0..MaxTick}

BayNext ==
    \/ \E p \in BayPayloads : create_booking(p)
    \/ \E p \in BayPayloads : auto_schedule(p)
    \/ \E id \in 1..MaxId : delete_booking(id)

BaySpec == BayInit /\ [][BayNext]_vars

\* C5: _bay_slot_is_free is true exactly when no stored booking of the bay
\* has an effective interval overlapping the queried interval and no closure
\* of the bay overlaps it, for every buffer length and every distance.
C5_BayFreeIffNoEffectiveOverlap ==
    \A bay \in {1, 2}, q \in BayQueries :
        _bay_slot_is_free(bookings, closures, bay, q[1], q[2])
        <=> /\ ~ \E b \in bookings :
                    b.bay_id = bay /\ EffStart(b) < q[2] /\ q[1] < EffEnd(b)
            /\ ~ \E c \in closures :
                    c.bay_id = bay /\ c.start_at < q[2] /\ q[1] < c.end_at

(***************************************************************************)
(* Mechanics: working windows, free segments and availability.             *)
(***************************************************************************)
Saturday == 5

\* rules a mechanic may add for Saturdays
CalRules ==
    {[user_id |-> 1, weekday |-> Saturday, start_time |-> t[1] * 60, end_time |-> t[2] * 60,
      valid_from |-> None, valid_to |-> None] : t \in {<<8, 12>>, <<12, 17>>, <<10, 14>>}}

CalTimeOff ==
    {[user_id |-> 1, start_at |-> Tick(1), end_at |-> Tick(2)]}

CalPayloads ==
    {[BasePayload EXCEPT !.bay_id = b, !.start_at = Tick(i), !.end_at = Tick(i + 1),
                         !.buffer_before_min = bb, !.buffer_after_min = ba,
                         !.assigned_user_id = 1] :
        b \in {1, 2}, i \in 0..(MaxTick - 1), bb \in {0, 60}, ba \in {0, 60}}

CalQueries ==
    {<<Tick(i), Tick(i + 1)>> : i \in 0..MaxTick} \cup {<<16 * 60 + 30, 17 * 60 + 30>>}

CalendarNext ==
    \/ \E u \in {1, 3}, r \in CalRules : create_working_hours(u, r)
    \/ \E u \in {1, 3} : set_office_hours(u)
    \/ \E u \in {1, 3}, t \in CalTimeOff : create_time_off(u, t)
    \/ \E p \in CalPayloads : create_booking(p)
    \/ \E p \in CalPayloads : auto_schedule(p)

CalendarSpec == Init /\ [][CalendarNext]_vars

\* the free segments of the local day that holds start_at
DayFreeSegments(user_id, start_at) ==
    _user_free_segments(bookings, workHours, timeOff, user_id,
                        Combine(LocalDate(start_at), 0), Combine(LocalDate(start_at) + 1, 0))

\* C6: _user_is_available is true for an interval exactly when the interval
\* lies inside a single free segment built by _user_free_segments; it is
\* false inside the buffer of one of the mechanic's bookings and past the
\* end of the working window.
C6_AvailableIffInsideFreeSegment ==
    \A q \in CalQueries :
        _user_is_available(bookings, workHours, timeOff, 1, q[1], q[2])
        <=> \E i \in 1..Len(DayFreeSegments(1, q[1])) :
               DayFreeSegments(1, q[1])[i][1] <= q[1] /\ q[2] <= DayFreeSegments(1, q[1])[i][2]

\* C7: rules of one mechanic and day that overlap or are adjacent are merged:
\* the span of two adjacent rules lies in one working window, and the windows
\* of a day are sorted and pairwise non-touching.
C7_AdjacentRulesMerged ==
    \A d \in 0..6 :
        LET wins == _user_work_windows_for_date(workHours, 1, d)
            rules == {r \in workHours : r.user_id = 1 /\ r.weekday = Weekday(d)}
        IN /\ \A i \in 1..(Len(wins) - 1) : wins[i][2] < wins[i + 1][1]
           /\ \A r1, r2 \in rules :
                 r1.end_time = r2.start_time
                 => \E i \in 1..Len(wins) :
                       /\ wins[i][1] <= Combine(d, r1.start_time)
                       /\ Combine(d, r2.end_time) <= wins[i][2]

(***************************************************************************)
(* Concurrent auto_schedule requests that carry a chain token.             *)
(***************************************************************************)
NoPrice == [net |-> None, gross |-> None, vat |-> None, note |-> None, custom |-> None]

FullPrice == [net |-> Some(20000), gross |-> Some(25000), vat |-> Some(25),
              note |-> Some("fast pris"), custom |-> Some(TRUE)]

\* (car_id, registration_number) as a request names its car
ChainCars == {<<0, "">>, <<1, "">>, <<3, "">>, <<0, "VAN777">>}

ChainPayloads ==
    {[BasePayload EXCEPT !.workshop_id = wb[1], !.bay_id = wb[2],
                         !.car_id = c[1], !.registration_number = c[2],
                         !.service_item_id = si, !.chain_token = tk,
                         !.price_net_ore = pr.net, !.price_gross_ore = pr.gross,
                         !.vat_percent = pr.vat, !.price_note = pr.note,
                         !.price_is_custom = pr.custom] :
        wb \in {<<1, 1>>, <<1, 2>>, <<2, 3>>}, c \in ChainCars, si \in {0, 1, 2},
        tk \in {"", "X"}, pr \in {NoPrice, FullPrice}}

ChainNext ==
    \/ \E s \in Slots, p \in ChainPayloads : Check(s, "auto_schedule", p)
    \/ \E s \in Slots : Commit(s)

ChainSpec == Init /\ [][ChainNext]_vars

\* the request found a chain master when it looked the token up
HasMaster(s) == reqs[s].master # {}
MasterOf(s) == CHOOSE m \in reqs[s].master : TRUE

\* C8: the booking an auto_schedule request creates for a chain token that
\* already has a master stores price_net_ore, price_gross_ore, price_note and
\* price_is_custom as null, whatever the request supplied.
C8_PartHasNoPrice ==
    \A s \in Slots :
        (Done(s) /\ reqs[s].kind = "auto_schedule" /\ reqs[s].code = 200 /\ HasMaster(s))
        => \A b \in bookings :
              b.id = reqs[s].id =>
                 /\ b.price_net_ore = None /\ b.price_gross_ore = None
                 /\ b.price_note = None /\ b.price_is_custom = None

\* a part was created from a request that supplied all four price fields
\* while the master carries a price
C8_Witness ==
    \E s \in Slots :
        /\ Done(s) /\ reqs[s].code = 200 /\ HasMaster(s)
        /\ reqs[s].payload.price_net_ore = Some(20000)
        /\ reqs[s].payload.price_note # None
        /\ MasterOf(s).price_net_ore # None
        /\ \E b \in bookings : b.id = reqs[s].id /\ b.chain_token = "X" /\ b.price_net_ore = None

\* C9: for every chain token at most one stored booking with the token, the
\* master (lowest id), carries a non-null price, after any interleaving of
\* auto_schedule requests with the same token.
C9_OnlyMasterPriced ==
    \A b \in bookings :
        (b.chain_token # "" /\ (b.price_net_ore # None \/ b.price_gross_ore # None))
        => b \in ChainMaster(bookings, b.chain_token)

\* the request names a workshop, car or service item other than the master's
NamesDifferent(s) ==
    LET m == MasterOf(s)
        car == AutoCar(reqs[s].payload)
    IN \/ reqs[s].payload.workshop_id # m.workshop_id
       \/ m.car_id # 0 /\ car # 0 /\ car # m.car_id
       \/ /\ m.service_item_id # 0 /\ reqs[s].payload.service_item_id # 0
          /\ reqs[s].payload.service_item_id # m.service_item_id

\* C10: a booking auto_schedule creates for a token that has a master has the
\* master's workshop_id, and its car_id and service_item_id when the master
\* has them; a request naming a different workshop, car or service item is
\* rejected and creates no booking.
C10_ChainConsistent ==
    \A s \in Slots :
        (Done(s) /\ reqs[s].kind = "auto_schedule" /\ HasMaster(s))
        => /\ reqs[s].code = 200 =>
                \A b \in bookings :
                    b.id = reqs[s].id =>
                       /\ b.workshop_id = MasterOf(s).workshop_id
                       /\ MasterOf(s).car_id # 0 => b.car_id = MasterOf(s).car_id
                       /\ MasterOf(s).service_item_id # 0
                             => b.service_item_id = MasterOf(s).service_item_id
           /\ NamesDifferent(s) =>
                /\ reqs[s].code # 200 /\ reqs[s].id = 0
                /\ Cardinality(bookings) = Cardinality({t \in Slots : Done(t) /\ reqs[t].code = 200})

\* a part that named neither car nor service item was stored with the master's
C10_Witness ==
    \E s \in Slots :
        /\ Done(s) /\ reqs[s].code = 200 /\ HasMaster(s)
        /\ reqs[s].payload.car_id = 0 /\ reqs[s].payload.registration_number = ""
        /\ reqs[s].payload.service_item_id = 0
        /\ MasterOf(s).car_id = 3 /\ MasterOf(s).service_item_id = 2
        /\ \E b \in bookings : b.id = reqs[s].id /\ b.car_id = 3 /\ b.service_item_id = 2

(***************************************************************************)
(* booking.py: helpers of the availability planner.                        *)
(***************************************************************************)
MIN_FRAGMENT_MINUTES == 30
MAX_FRAGMENT_PARTS == 3
MAX_FRAGMENT_DAYS == 3

\* the scan step availability_auto fixes (interval_granularity_min is not read)
SCAN_STEP_MIN == 1

\* _round_up on whole minutes: only the minute of the hour is looked at
_round_up(dt, minutes) ==
    LET k == (dt % 60) % minutes
    IN IF k = 0 THEN dt ELSE dt + (minutes - k)

\* _round_up_local: the zone offset is a whole number of hours
_round_up_local(dt_utc, minutes) == _round_up(dt_utc, minutes)

\* _duration_for_service_item
_duration_for_service_item(si) ==
    IF WorkshopServiceItem[si].default_duration_min # 0
    THEN WorkshopServiceItem[si].default_duration_min ELSE 60

\* _candidate_bays_for_vehicle: every bay of the workshop
_candidate_bays_for_vehicle(workshop_id) ==
    {b \in DOMAIN WorkshopBay : WorkshopBay[b].workshop_id = workshop_id}

\* _cheap_wallclock_cover
_cheap_wallclock_cover(whs, users, start_at, end_at) ==
    IF end_at <= start_at THEN FALSE
    ELSE \E u \in users : \E w \in WindowsAround(whs, u, start_at, end_at) :
            w[1] <= start_at /\ end_at <= w[2]

\* a load count that takes every row, whoever it is assigned to
_mechanic_load_count_Any(bks, user_id, window_start, window_end) == Cardinality(bks)

\* _mechanic_load_count
_mechanic_load_count(bks, user_id, window_start, window_end) ==
    Cardinality({b \in bks : b.assigned_user_id = user_id
                             /\ b.start_at < window_end /\ b.end_at > window_start})

\* _score_mechanic (the score only)
_score_mechanic(bks, user_id, window_start, window_end, prefer_user_id) ==
    LET load == _mechanic_load_count(bks, user_id, window_start, window_end)
        base == 50 + (IF load <= 0 THEN 30 ELSE IF load = 1 THEN 20 ELSE IF load = 2 THEN 10 ELSE 0)
        score == base + (IF prefer_user_id # 0 /\ user_id = prefer_user_id THEN 10 ELSE 0)
    IN Max2(0, Min2(100, score))

\* the ids of a set of (key, id) pairs in the order of the sorted pairs
OrderByKey(keyed) ==
    LET srt == SortPairs(keyed)
    IN [i \in 1..Len(srt) |-> srt[i][2]]

\* _least_busy_order
_least_busy_order(bks, users, window_start, window_end) ==
    OrderByKey({<<_mechanic_load_count(bks, u, window_start, window_end), u>> : u \in users})

RECURSIVE FreeWalk(_, _, _, _)
\* the pos loop of _bay_free_segments over the sorted blocks of one segment
FreeWalk(pos, seg_e, blks, free) ==
    IF blks = <<>> THEN (IF pos < seg_e THEN Append(free, <<pos, seg_e>>) ELSE free)
    ELSE FreeWalk(Max2(pos, Head(blks)[2]), seg_e, Tail(blks),
                  IF pos < Head(blks)[1] THEN Append(free, <<pos, Head(blks)[1]>>) ELSE free)

\* _bay_free_segments for the one segment [seg_s, seg_e) availability_auto passes
_bay_free_segments(bks, cls, bay_id, seg_s, seg_e) ==
    LET bookings_ == {b \in bks : b.bay_id = bay_id /\ b.start_at < seg_e /\ b.end_at > seg_s}
        closures_ == {c \in cls : c.bay_id = bay_id /\ c.start_at < seg_e /\ c.end_at > seg_s}
        blks == {<<Max2(EffStart(b), seg_s), Min2(EffEnd(b), seg_e)>> : b \in bookings_}
                \cup {<<Max2(c.start_at, seg_s), Min2(c.end_at, seg_e)>> : c \in closures_}
    IN SelectSeq(FreeWalk(seg_s, seg_e, SortPairs(blks), <<>>), LAMBDA p : p[2] > p[1])

RECURSIVE IntersectWalk(_, _, _, _, _)
IntersectWalk(a, b, i, j, out) ==
    IF ~(i <= Len(a) /\ j <= Len(b)) THEN out
    ELSE LET s == Max2(a[i][1], b[j][1])
             e == Min2(a[i][2], b[j][2])
             out2 == IF e > s THEN Append(out, <<s, e>>) ELSE out
         IN IF a[i][2] < b[j][2] THEN IntersectWalk(a, b, i + 1, j, out2)
            ELSE IntersectWalk(a, b, i, j + 1, out2)

\* an intersection that gives up after the first segment of a
_intersect_segments_First(a, b) ==
    IF a = <<>> THEN <<>> ELSE IntersectWalk(<<a[1]>>, b, 1, 1, <<>>)

\* _intersect_segments
_intersect_segments(a, b) == IntersectWalk(a, b, 1, 1, <<>>)

(***************************************************************************)
(* booking.py: availability_auto.  One request is the record st: the       *)
(* payload p, the clock reading now, the shuffles orc, the values computed  *)
(* before the scan, and the loop variables.  orc[n] is the order a seeded   *)
(* shuffle (or rotation) yields while n - 1 proposals are in the list.      *)
(***************************************************************************)
ThirtyDays == 30 * 24 * 60

\* _dedupe_key
_dedupe_key(bay_id, user_id, s, e) == <<bay_id, user_id, s, e>>

\* the answer of a request that never enters the scan
NoScan(p, now, orc, code) ==
    [op |-> "availability_auto", code |-> code, pc |-> "done", p |-> p, now |-> now, orc |-> orc,
     duration_min |-> 0, start_from |-> 0, latest_end |-> 0, bays |-> {}, employees |-> {},
     current |-> 0, t |-> 0, ret |-> "", proposals |-> <<>>, seen_slots |-> {}]

\* a scan that starts at the clock reading whatever the request says
StartFrom_Now(p, now) == now

\* start_from: earliest_from (or now), not before now + min_lead_time_min
StartFrom(p, now) ==
    LET start_from_raw == IF p.earliest_from # None THEN p.earliest_from[1] ELSE now
        min_start == now + Max2(0, p.min_lead_time_min)
    IN Max2(start_from_raw, min_start)

\* availability_auto up to the first test of the main loop
StartScan(p, now, orc) ==
    LET si == p.service_item_id
        duration_min == IF p.override_duration_min # 0 THEN p.override_duration_min
                        ELSE _duration_for_service_item(si)
        bays == _candidate_bays_for_vehicle(p.workshop_id)
        employees == _employees_in_workshop(p.workshop_id)
        start_from == StartFrom(p, now)
        latest_end == IF p.latest_end # None THEN p.latest_end[1] ELSE start_from + ThirtyDays
    IN IF p.workshop_id \notin Workshops THEN NoScan(p, now, orc, 404)
       ELSE IF si \notin DOMAIN WorkshopServiceItem
               \/ WorkshopServiceItem[si].workshop_id # p.workshop_id THEN NoScan(p, now, orc, 404)
       ELSE IF duration_min <= 0 THEN NoScan(p, now, orc, 400)
       ELSE IF bays = {} THEN NoScan(p, now, orc, 200)
       ELSE IF employees = {} THEN NoScan(p, now, orc, 200)
       ELSE IF latest_end <= start_from THEN NoScan(p, now, orc, 400)
       ELSE [NoScan(p, now, orc, 200) EXCEPT
                !.pc = "main", !.duration_min = duration_min, !.start_from = start_from,
                !.latest_end = latest_end, !.bays = bays, !.employees = employees,
                !.current = _round_up_local(start_from, 1)]

\* the working window of u covers [s, e)
WindowCovers(u, s, e) ==
    \E w \in WindowsAround(workHours, u, s, e) : w[1] <= s /\ e <= w[2]

\* the inline buffer test of the contiguous attempt
BusyWithBuffer(u, s, e) ==
    \E b2 \in {b \in bookings : b.assigned_user_id = u /\ ~(b.end_at <= s \/ b.start_at >= e)} :
        ~((b2.end_at + b2.buffer_after_min) <= s \/ (b2.start_at - b2.buffer_before_min) >= e)

\* the mechanics that reach the eligible list for [s, e)
Eligible(coverers, s, e) ==
    {u \in coverers :
        /\ WindowCovers(u, s, e)
        /\ ~_user_timeoff_overlaps(timeOff, u, s, e)
        /\ ~BusyWithBuffer(u, s, e)
        /\ _user_is_available(bookings, workHours, timeOff, u, s, e)}

\* the test both the coarse check and _next_any_bay_cover_start make at t
CoverAndBay(st, t) ==
    /\ _cheap_wallclock_cover(workHours, st.employees, t, t + st.duration_min)
    /\ \E b \in st.bays : _bay_slot_is_free(bookings, closures, b, t, t + st.duration_min)

\* a scan that takes every key for new
SeenBefore_Never(key, seen) == FALSE

\* if key in seen_slots
SeenBefore(key, seen) == key \in seen

RECURSIVE EmitEligible(_, _, _, _, _)
\* the loop over eligible[:max_per_time]: one proposal per mechanic
EmitEligible(st, bay, users, props, seen) ==
    IF users = <<>> THEN [proposals |-> props, seen_slots |-> seen, slot_added |-> FALSE]
    ELSE LET u == Head(users)
             key == _dedupe_key(bay, u, st.current, st.current + st.duration_min)
             prop == [bay_id |-> bay, start_at |-> st.current,
                      end_at |-> st.current + st.duration_min, assigned_user_id |-> u,
                      parts |-> <<>>, recommended_user_id |-> u, scan_t |-> st.current]
         IN IF SeenBefore(key, seen) THEN EmitEligible(st, bay, Tail(users), props, seen)
            ELSE IF Len(props) + 1 >= st.p.num_proposals
                 THEN [proposals |-> Append(props, prop), seen_slots |-> seen \cup {key},
                       slot_added |-> TRUE]
                 ELSE EmitEligible(st, bay, Tail(users), Append(props, prop), seen \cup {key})

\* attempt 1 for one bay: the contiguous slot [current, current + duration)
Contiguous(st, bay, coverers, props, seen) ==
    LET candidate_end == st.current + st.duration_min
        eligible == Eligible(coverers, st.current, candidate_end)
        shuffled == SelectSeq(st.orc[Len(props) + 1], LAMBDA u : u \in eligible)
        max_per_time == Max2(1, st.p.max_candidates_per_slot)
        r == EmitEligible(st, bay, SubSeq(shuffled, 1, Min2(Len(shuffled), max_per_time)), props, seen)
    IN IF ~_bay_slot_is_free(bookings, closures, bay, st.current, candidate_end) \/ eligible = {}
       THEN [proposals |-> props, seen_slots |-> seen, slot_added |-> FALSE]
       ELSE [r EXCEPT !.slot_added = r.slot_added \/ Len(r.proposals) > 0]

RECURSIVE Greedy(_, _, _)
\* the greedy fill: parts of at least MIN_FRAGMENT_MINUTES, at most MAX_FRAGMENT_PARTS
Greedy(segs, remaining, parts_utc) ==
    IF segs = <<>> \/ remaining <= 0 \/ Len(parts_utc) >= MAX_FRAGMENT_PARTS
    THEN [remaining |-> remaining, parts |-> parts_utc]
    ELSE LET seg == Head(segs)
             take == Min2(remaining, seg[2] - seg[1])
         IN IF take >= MIN_FRAGMENT_MINUTES
            THEN Greedy(Tail(segs), remaining - take, Append(parts_utc, <<seg[1], seg[1] + take>>))
            ELSE Greedy(Tail(segs), remaining, parts_utc)

\* a cover that is taken although part of the duration remains
CoverOk_Partial(g) == Len(g.parts) >= 1

\* the test a greedy fill must pass to count as a cover
CoverOk(g) == g.remaining <= 0 /\ 1 <= Len(g.parts) /\ Len(g.parts) <= MAX_FRAGMENT_PARTS

\* the parts one mechanic can cover the duration with, <<>> when the mechanic cannot
CoverParts(st, bay_free, u, end_limit) ==
    LET user_free == _user_free_segments(bookings, workHours, timeOff, u, st.current, end_limit)
        cand_segs == SelectSeq(_intersect_segments(bay_free, user_free),
                               LAMBDA sg : sg[2] - sg[1] >= MIN_FRAGMENT_MINUTES)
        g == Greedy(cand_segs, st.duration_min, <<>>)
    IN IF user_free = <<>> \/ cand_segs = <<>> THEN <<>>
       ELSE IF CoverOk(g) THEN g.parts ELSE <<>>

\* the order the fragmented attempt walks the employees in
FragmentOrder(st, props, end_limit) ==
    IF st.p.assignment_strategy = "least_busy"
    THEN _least_busy_order(bookings, st.employees, st.current, end_limit)
    ELSE st.orc[Len(props) + 1]

\* covering_results: the mechanics, in walking order, that cover the duration
CoverAll(st, bay_free, users_in_order, end_limit) ==
    IF bay_free = <<>> THEN <<>>
    ELSE SelectSeq([k \in 1..Len(users_in_order) |->
                       <<users_in_order[k], CoverParts(st, bay_free, users_in_order[k], end_limit)>>],
                   LAMBDA r : r[2] # <<>>)

\* the proposal made from covering_results, unless its key was seen before
FragmentProposal(st, bay, props, seen, covering_results) ==
    LET idx == 1..Len(covering_results)
        first_start == CHOOSE x \in {covering_results[k][2][1][1] : k \in idx} :
                          \A k \in idx : x <= covering_results[k][2][1][1]
        last_end == CHOOSE x \in {covering_results[k][2][Len(covering_results[k][2])][2] : k \in idx} :
                          \A k \in idx : x >= covering_results[k][2][Len(covering_results[k][2])][2]
        window_users ==
            OrderByKey({<<0 - _score_mechanic(bookings, covering_results[k][1], first_start,
                                              last_end, st.p.prefer_user_id),
                          covering_results[k][1]>> : k \in idx})
        key == _dedupe_key(bay, 0, first_start, last_end)
        prop == [bay_id |-> bay, start_at |-> first_start, end_at |-> last_end,
                 assigned_user_id |-> 0, parts |-> covering_results[1][2],
                 recommended_user_id |-> window_users[1], scan_t |-> st.current]
    IN IF covering_results = <<>> \/ SeenBefore(key, seen)
       THEN [proposals |-> props, seen_slots |-> seen, slot_added |-> FALSE]
       ELSE [proposals |-> Append(props, prop), seen_slots |-> seen \cup {key}, slot_added |-> TRUE]

\* attempt 2 for one bay: parts inside [current, end_limit]
Fragmented(st, bay, props, seen) ==
    LET end_limit == Min2(st.latest_end, st.current + MAX_FRAGMENT_DAYS * 24 * 60)
    IN FragmentProposal(st, bay, props, seen,
                        CoverAll(st, _bay_free_segments(bookings, closures, bay, st.current, end_limit),
                                 FragmentOrder(st, props, end_limit), end_limit))

\* a request that takes fragmented proposals whatever the flag says
AllowFragments_Always(st) == TRUE

\* the flag that opens attempt 2
AllowFragments(st) == st.p.allow_fragmented_parts

RECURSIVE BayLoop(_, _, _, _, _)
\* the end of one bay's turn: attempt 2 gave f
AfterFragmented(st, bays_ordered, coverers, f) ==
    IF f.slot_added THEN [proposals |-> f.proposals, seen_slots |-> f.seen_slots]
    ELSE BayLoop(st, Tail(bays_ordered), coverers, f.proposals, f.seen_slots)

\* the rest of one bay's turn: attempt 1 gave c
AfterContiguous(st, bays_ordered, coverers, c) ==
    IF c.slot_added THEN [proposals |-> c.proposals, seen_slots |-> c.seen_slots]
    ELSE IF ~AllowFragments(st)
         THEN BayLoop(st, Tail(bays_ordered), coverers, c.proposals, c.seen_slots)
    ELSE AfterFragmented(st, bays_ordered, coverers,
                         Fragmented(st, Head(bays_ordered), c.proposals, c.seen_slots))

\* the loop over bays_ordered of one scan time
BayLoop(st, bays_ordered, coverers, props, seen) ==
    IF bays_ordered = <<>> THEN [proposals |-> props, seen_slots |-> seen]
    ELSE AfterContiguous(st, bays_ordered, coverers,
                         Contiguous(st, Head(bays_ordered), coverers, props, seen))

\* the ids of a set in ascending order
SortedIds(S) == OrderByKey({<<x, x>> : x \in S})

\* a loop body that leaves the candidate time where it is
NextCurrent_Stay(current) == current

\* current = current + timedelta(minutes=step)
NextCurrent(current) == current + SCAN_STEP_MIN

\* the loop body once the bays were walked: the proposals and the next time
AfterBays(st, r) ==
    [st EXCEPT !.pc = "main", !.proposals = r.proposals, !.seen_slots = r.seen_slots,
               !.current = NextCurrent(st.current)]

\* the loop body after the coarse check, for the mechanics whose window covers
ScanBody(st, coverers) ==
    IF coverers = {}
    THEN [st EXCEPT !.pc = "skip", !.ret = "main",
                    !.t = _round_up_local(st.current + SCAN_STEP_MIN, SCAN_STEP_MIN)]
    ELSE AfterBays(st, BayLoop(st, SortedIds(st.bays), coverers, st.proposals, st.seen_slots))

\* one step of availability_auto: the loop test and coarse check ("main"),
\* one iteration of _next_any_bay_cover_start ("skip"), or the rest of the
\* loop body ("body")
ScanStep(st) ==
    IF st.pc = "main"
    THEN IF ~(st.current + st.duration_min <= st.latest_end /\ Len(st.proposals) < st.p.num_proposals)
         THEN [st EXCEPT !.pc = "done"]
         ELSE IF ~CoverAndBay(st, st.current)
              THEN [st EXCEPT !.pc = "skip", !.t = st.current, !.ret = "body"]
              ELSE [st EXCEPT !.pc = "body"]
    ELSE IF st.pc = "skip"
    THEN IF ~(st.t + st.duration_min <= st.latest_end) THEN [st EXCEPT !.pc = "done"]
         ELSE IF CoverAndBay(st, st.t) THEN [st EXCEPT !.pc = st.ret, !.current = st.t]
         ELSE [st EXCEPT !.t = _round_up_local(st.t + SCAN_STEP_MIN, SCAN_STEP_MIN)]
    ELSE ScanBody(st, {u \in st.employees :
                          WindowCovers(u, st.current, st.current + st.duration_min)})

RECURSIVE RunScan(_)
\* the scan run to its end
RunScan(st) == IF st.pc = "done" THEN st ELSE RunScan(ScanStep(st))

\* POST /availability/auto: the whole request; it writes to no table
availability_auto(p, now, orc) ==
    /\ last' = RunScan(StartScan(p, now, orc))
    /\ UNCHANGED <<bookings, nextId, closures, workHours, timeOff, reqs>>

\* a check that closes the bay for the interval it was asked about
check_availability_Writing(workshop_id, bay_id, start_at, end_at, buffer_before_min, buffer_after_min) ==
    /\ last' = [op |-> "check_availability", code |-> 200,
                args |-> <<workshop_id, bay_id, start_at, end_at, buffer_before_min, buffer_after_min>>,
                available |-> TRUE]
    /\ closures' = closures \cup {[bay_id |-> bay_id, start_at |-> start_at, end_at |-> end_at]}
    /\ UNCHANGED <<bookings, nextId, workHours, timeOff, reqs>>

\* GET /availability/check
check_availability(workshop_id, bay_id, start_at, end_at, buffer_before_min, buffer_after_min) ==
    LET c0 == _ensure_workshop_and_bay(workshop_id, bay_id)
        c1 == _assert_no_conflicts(bookings, closures, 0, bay_id, start_at, end_at,
                                   buffer_before_min, buffer_after_min)
    IN /\ last' = [op |-> "check_availability",
                   code |-> IF c0 # 200 THEN c0 ELSE 200,
                   args |-> <<workshop_id, bay_id, start_at, end_at, buffer_before_min, buffer_after_min>>,
                   available |-> c0 = 200 /\ c1 = 200]
       /\ UNCHANGED <<bookings, nextId, closures, workHours, timeOff, reqs>>

(***************************************************************************)
(* The planner on small calendars: a morning with at most two bookings     *)
(* and time off of mechanic 2.  An answer depends on the tables and the    *)
(* request only, so a plan is asked for after every other kind of request  *)
(* and not twice in a row.                                                 *)
(***************************************************************************)
MaxProposals == 3

\* every order of the two mechanics of workshop 1
Perms == {<<1, 2>>, <<2, 1>>}

\* the clock reading: half an hour before the first tick
PlanNow == Tick(0) - 30

BaseRequest ==
    [workshop_id |-> 1, registration_number |-> "ABC123", service_item_id |-> 1,
     earliest_from |-> None, latest_end |-> Some(Tick(3)), prefer_user_id |-> 0,
     num_proposals |-> 3, interval_granularity_min |-> 15, include_buffers |-> TRUE,
     override_duration_min |-> 0, assignment_strategy |-> "random", return_candidates |-> TRUE,
     max_candidates_per_slot |-> 5, min_lead_time_min |-> 30, allow_fragmented_parts |-> FALSE]

\* requests for contiguous slots only
ContiguousRequests ==
    {[BaseRequest EXCEPT !.earliest_from = ef, !.latest_end = Some(le), !.num_proposals = n,
                         !.max_candidates_per_slot = mc] :
        ef \in {None, Some(Tick(1))}, le \in {Tick(2), Tick(3)}, n \in {1, MaxProposals},
        mc \in {1, 5}}
    \cup {[BaseRequest EXCEPT !.override_duration_min = 90]}

\* requests that allow fragmented proposals
FragmentedRequests ==
    {[BaseRequest EXCEPT !.earliest_from = ef, !.prefer_user_id = ps[1],
                         !.override_duration_min = d, !.assignment_strategy = ps[2],
                         !.max_candidates_per_slot = 1, !.allow_fragmented_parts = TRUE] :
        ef \in {None, Some(Tick(1))}, d \in {0, 90},
        ps \in {<<0, "random">>, <<2, "least_busy">>}}

\* requests that are answered before the scan
EarlyRequests ==
    {[BaseRequest EXCEPT !.workshop_id = 2], [BaseRequest EXCEPT !.override_duration_min = -5],
     [BaseRequest EXCEPT !.latest_end = Some(Tick(0))]}

PlanRequests == ContiguousRequests \cup FragmentedRequests \cup EarlyRequests

\* the shuffles a request with n proposals can meet
Orcs(n) == [1..n -> Perms]

PlanBookings ==
    {[BasePayload EXCEPT !.bay_id = bu[1], !.assigned_user_id = bu[2], !.buffer_after_min = ba] :
        bu \in {<<1, 0>>, <<2, 1>>}, ba \in {0, 60}}

PlanTimeOff ==
    {[user_id |-> 2, start_at |-> Tick(k), end_at |-> Tick(k + 1)] : k \in {0, 1}}

PlanChecks == {<<1, 1, Tick(0), Tick(1), 0, 0>>, <<1, 1, Tick(1), Tick(2), 0, 0>>,
               <<1, 2, Tick(1), Tick(2), 60, 0>>, <<2, 1, Tick(0), Tick(1), 0, 0>>}

PlanNext ==
    \/ \E p \in PlanBookings : create_booking(p)
    \/ \E t \in PlanTimeOff : create_time_off(2, t)
    \/ /\ last.op # "availability_auto"
       /\ \E p \in PlanRequests : \E orc \in Orcs(Max2(1, p.num_proposals)) :
             availability_auto(p, PlanNow, orc)
    \/ \E a \in PlanChecks : check_availability(a[1], a[2], a[3], a[4], a[5], a[6])

PlanSpec == Init /\ [][PlanNext]_vars

\* the state holds the answer of an availability_auto request
Answered == last.op = "availability_auto" /\ last.pc = "done"

\* C11: in one availability_auto response no two proposals that name the
\* same bay and the same mechanic have overlapping time intervals.
C11_NoOverlapSameBayMechanic ==
    Answered =>
        \A i, j \in 1..Len(last.proposals) :
            (/\ i < j
             /\ last.proposals[i].bay_id = last.proposals[j].bay_id
             /\ last.proposals[i].assigned_user_id # 0
             /\ last.proposals[i].assigned_user_id = last.proposals[j].assigned_user_id)
            => ~_overlap(last.proposals[i].start_at, last.proposals[i].end_at,
                         last.proposals[j].start_at, last.proposals[j].end_at)

\* C12: every contiguous proposal (bay, mechanic, start, end) of a response
\* is covered in the state it was computed from: no booking of the bay has
\* an effective interval overlapping it and no closure overlaps it, the
\* mechanic's working window covers it, and the mechanic has no overlapping
\* time off and no booking whose effective interval overlaps it.
C12_ProposalsAreCovered ==
    Answered =>
        \A i \in 1..Len(last.proposals) :
            LET pr == last.proposals[i]
            IN pr.parts = <<>> =>
                  /\ ~ \E b \in bookings :
                          b.bay_id = pr.bay_id /\ EffStart(b) < pr.end_at /\ pr.start_at < EffEnd(b)
                  /\ ~ \E c \in closures :
                          c.bay_id = pr.bay_id /\ c.start_at < pr.end_at /\ pr.start_at < c.end_at
                  /\ WindowCovers(pr.assigned_user_id, pr.start_at, pr.end_at)
                  /\ ~ \E t \in timeOff :
                          /\ t.user_id = pr.assigned_user_id
                          /\ t.start_at < pr.end_at /\ pr.start_at < t.end_at
                  /\ ~ \E b \in bookings :
                          /\ b.assigned_user_id = pr.assigned_user_id
                          /\ EffStart(b) < pr.end_at /\ pr.start_at < EffEnd(b)

\* C13: when allow_fragmented_parts is false every proposal of the response
\* has no parts list and names an assigned mechanic.
C13_NoFragmentsUnlessAllowed ==
    (Answered /\ ~last.p.allow_fragmented_parts) =>
        \A i \in 1..Len(last.proposals) :
            last.proposals[i].parts = <<>> /\ last.proposals[i].assigned_user_id # 0

\* a request without the flag was answered with proposals in a state where
\* the same request with the flag gets a multi-part proposal
C13_Witness ==
    /\ Answered /\ ~last.p.allow_fragmented_parts
    /\ Len(last.proposals) >= 1
    /\ LET w == RunScan(StartScan([last.p EXCEPT !.allow_fragmented_parts = TRUE], last.now, last.orc))
       IN \E i \in 1..Len(w.proposals) : Len(w.proposals[i].parts) >= 2

RECURSIVE PartsTotal(_)
\* the minutes a list of parts adds up to
PartsTotal(parts) ==
    IF parts = <<>> THEN 0 ELSE (Head(parts)[2] - Head(parts)[1]) + PartsTotal(Tail(parts))

\* C14: every fragmented proposal has between 1 and MAX_FRAGMENT_PARTS
\* parts, each of at least MIN_FRAGMENT_MINUTES, sorted by start and
\* pairwise disjoint, adding up to exactly the requested duration, and each
\* inside [t, min(latest_end, t + MAX_FRAGMENT_DAYS days)] for the scan time
\* t the proposal was generated at.
C14_PartsWellFormed ==
    Answered =>
        \A i \in 1..Len(last.proposals) :
            LET pr == last.proposals[i]
                n == Len(pr.parts)
                end_limit == Min2(last.latest_end, pr.scan_t + MAX_FRAGMENT_DAYS * 24 * 60)
            IN pr.assigned_user_id = 0 =>
                  /\ 1 <= n /\ n <= MAX_FRAGMENT_PARTS
                  /\ \A k \in 1..n : pr.parts[k][2] - pr.parts[k][1] >= MIN_FRAGMENT_MINUTES
                  /\ \A k \in 1..(n - 1) : pr.parts[k][2] <= pr.parts[k + 1][1]
                  /\ PartsTotal(pr.parts) = last.duration_min
                  /\ \A k \in 1..n : pr.scan_t <= pr.parts[k][1] /\ pr.parts[k][2] <= end_limit

\* a response holds a proposal of two parts or more
C14_Witness ==
    /\ Answered
    /\ \E i \in 1..Len(last.proposals) :
          last.proposals[i].assigned_user_id = 0 /\ Len(last.proposals[i].parts) >= 2

\* C15: each part of a fragmented proposal is free for the bay, the buffers
\* of the bay's bookings included, and lies inside a free segment of the
\* mechanic named in recommended_user_id.
C15_PartsFreeForBayAndMechanic ==
    Answered =>
        \A i \in 1..Len(last.proposals) :
            LET pr == last.proposals[i]
                end_limit == Min2(last.latest_end, pr.scan_t + MAX_FRAGMENT_DAYS * 24 * 60)
                user_free == _user_free_segments(bookings, workHours, timeOff,
                                                 pr.recommended_user_id, pr.scan_t, end_limit)
            IN pr.assigned_user_id = 0 =>
                  \A k \in 1..Len(pr.parts) :
                     /\ ~ \E b \in bookings :
                             /\ b.bay_id = pr.bay_id
                             /\ EffStart(b) < pr.parts[k][2] /\ pr.parts[k][1] < EffEnd(b)
                     /\ ~ \E c \in closures :
                             /\ c.bay_id = pr.bay_id
                             /\ c.start_at < pr.parts[k][2] /\ pr.parts[k][1] < c.end_at
                     /\ \E j \in 1..Len(user_free) :
                             user_free[j][1] <= pr.parts[k][1] /\ pr.parts[k][2] <= user_free[j][2]

\* C16: every proposal and every part of a response starts at or after
\* max(earliest_from, now + min_lead_time_min) and ends at or before
\* latest_end.
C16_InsideRequestedWindow ==
    Answered =>
        LET lead == last.now + last.p.min_lead_time_min
            lower == IF last.p.earliest_from = None THEN lead
                     ELSE Max2(last.p.earliest_from[1], lead)
            upper == IF last.p.latest_end = None THEN last.latest_end ELSE last.p.latest_end[1]
        IN \A i \in 1..Len(last.proposals) :
              LET pr == last.proposals[i]
              IN /\ lower <= pr.start_at /\ pr.end_at <= upper
                 /\ \A k \in 1..Len(pr.parts) :
                        lower <= pr.parts[k][1] /\ pr.parts[k][2] <= upper

\* a request with earliest_from got one proposal that starts exactly there
\* and one, made of parts, that ends exactly at latest_end
C16_Witness ==
    /\ Answered /\ last.p.earliest_from # None /\ last.p.latest_end # None
    /\ \E i \in 1..Len(last.proposals) :
          last.proposals[i].start_at = last.p.earliest_from[1]
    /\ \E i \in 1..Len(last.proposals) :
          /\ last.proposals[i].parts # <<>>
          /\ last.proposals[i].end_at = last.p.latest_end[1]

\* C17: a response holds at most num_proposals proposals, and at most
\* max(1, max_candidates_per_slot) proposals for one (bay, start time).
C17_AtMostQuota ==
    Answered =>
        /\ Len(last.proposals) <= last.p.num_proposals
        /\ \A i \in 1..Len(last.proposals) :
              Cardinality({j \in 1..Len(last.proposals) :
                              /\ last.proposals[j].bay_id = last.proposals[i].bay_id
                              /\ last.proposals[j].start_at = last.proposals[i].start_at})
                 <= Max2(1, last.p.max_candidates_per_slot)

\* C18: no two proposals of one response have the same bay, the same
\* assigned mechanic (none for a proposal made of parts), the same start and
\* the same end.
C18_NoDuplicateProposals ==
    Answered =>
        \A i, j \in 1..Len(last.proposals) :
            i < j =>
              <<last.proposals[i].bay_id, last.proposals[i].assigned_user_id,
                last.proposals[i].start_at, last.proposals[i].end_at>>
              # <<last.proposals[j].bay_id, last.proposals[j].assigned_user_id,
                  last.proposals[j].start_at, last.proposals[j].end_at>>

\* a response holds a proposal made of parts and another proposal for the
\* same bay, start and end, and the scan went on after the first of them
C18_Witness ==
    /\ Answered
    /\ \E i, j \in 1..Len(last.proposals) :
          /\ i < j
          /\ last.proposals[i].parts # <<>>
          /\ last.proposals[i].bay_id = last.proposals[j].bay_id
          /\ last.proposals[i].start_at = last.proposals[j].start_at
          /\ last.proposals[i].end_at = last.proposals[j].end_at
          /\ last.proposals[j].scan_t > last.proposals[i].scan_t + 1

\* C20: check_availability and availability_auto are pure reads: a step that
\* answers one of them changes no booking, closure, working-hour rule or
\* time-off record, and a check_availability call that follows one with the
\* same arguments, with no write in between, returns the same result.
C20_PureReads ==
    [][/\ last'.op \in {"check_availability", "availability_auto"}
            => UNCHANGED <<bookings, nextId, closures, workHours, timeOff>>
       /\ (/\ last.op = "check_availability" /\ last'.op = "check_availability"
           /\ last'.args = last.args)
            => (last'.available = last.available /\ last'.code = last.code)]_vars

\* a check on a calendar with bookings and time off answered "not available"
C20_Witness ==
    /\ last.op = "check_availability" /\ last.code = 200 /\ ~last.available
    /\ bookings # {} /\ timeOff # {}

(***************************************************************************)
(* The scan of availability_auto step by step.  A request is taken when no  *)
(* scan is under way and then runs one ScanStep at a time; the calendar is  *)
(* written between scans, so every scan runs on one calendar state.         *)
(***************************************************************************)
Scanning == last.op = "availability_auto" /\ last.pc # "done"

\* the handler is entered: everything before the first loop test
ScanStart(p, now, orc) ==
    /\ ~Scanning
    /\ last' = StartScan(p, now, orc)
    /\ UNCHANGED <<bookings, nextId, closures, workHours, timeOff, reqs>>

\* the handler goes on by one step
ScanAdvance ==
    /\ Scanning
    /\ last' = ScanStep(last)
    /\ UNCHANGED <<bookings, nextId, closures, workHours, timeOff, reqs>>

\* bookings that close a bay for one hour or for the whole morning
ScanBookings ==
    {[BasePayload EXCEPT !.bay_id = bu[1], !.assigned_user_id = bu[2], !.end_at = e] :
        bu \in {<<1, 0>>, <<2, 1>>}, e \in {Tick(1), Tick(MaxTick)}}

ScanTimeOff == {[user_id |-> 2, start_at |-> Tick(0), end_at |-> Tick(1)]}

ScanRequests ==
    {[BaseRequest EXCEPT !.latest_end = Some(Tick(2)), !.num_proposals = n,
                         !.override_duration_min = d, !.allow_fragmented_parts = fr] :
        n \in {1, MaxProposals}, d \in {0, 90}, fr \in BOOLEAN}
    \cup {[BaseRequest EXCEPT !.latest_end = Some(Tick(0))]}

\* one shuffle order for the whole scan
ScanOrcs(n) == {[i \in 1..n |-> perm] : perm \in Perms}

ScanNext ==
    \/ /\ ~Scanning
       /\ \E p \in ScanBookings : create_booking(p)
    \/ /\ ~Scanning
       /\ \E t \in ScanTimeOff : create_time_off(2, t)
    \/ \E p \in ScanRequests : \E orc \in ScanOrcs(Max2(1, p.num_proposals)) :
          ScanStart(p, PlanNow, orc)
    \/ ScanAdvance

ScanSpec == Init /\ [][ScanNext]_vars

\* C19: the scan terminates on every calendar.  On every step of a scan
\* under way the candidate time never goes back; it grows strictly on every
\* iteration of the main loop (current) and of _next_any_bay_cover_start (t);
\* both loops stop once the candidate time plus the duration exceeds
\* latest_end; and the variant rank, a natural number made of the minutes
\* left to latest_end and the position in the loop, falls on every step, so
\* no scan takes more than rank(first state) steps.
C19_ScanTerminates ==
    [][LET time(st) == IF st.pc = "skip" THEN st.t ELSE st.current
           place(st) == IF st.pc = "body" THEN 1
                        ELSE IF st.pc = "skip" /\ st.ret = "body" THEN 2
                        ELSE IF st.pc = "main" THEN 3 ELSE 4
           rank(st) == IF st.pc = "done" THEN 0
                       ELSE 4 * (st.latest_end + 1 - time(st)) + place(st)
       IN Scanning =>
            /\ last'.op = "availability_auto"
            /\ rank(last) > 0 /\ rank(last') >= 0 /\ rank(last') < rank(last)
            /\ last'.current >= last.current
            /\ (last.pc = "body" /\ last'.pc = "main") => last'.current > last.current
            /\ (last.pc = "body" /\ last'.pc = "skip") => last'.t > last.current
            /\ (last.pc = "skip" /\ last'.pc = "skip") => last'.t > last.t
            /\ (last.pc = "main" /\ last.current + last.duration_min > last.latest_end)
                  => last'.pc = "done"
            /\ (last.pc = "skip" /\ last.t + last.duration_min > last.latest_end)
                  => last'.pc = "done"]_vars

\* a scan ended without filling the quota after the skip-ahead search ran
\* from the first candidate time to latest_end
C19_Witness ==
    /\ Answered /\ last.code = 200
    /\ last.proposals = <<>>
    /\ last.current = last.start_from
    /\ last.t + last.duration_min > last.latest_end
    /\ last.t > last.current + 1

(***************************************************************************)
(* The interval algebra on its own: the overlap tests, _segment_subtract    *)
(* and _intersect_segments applied to every input of a small grid.  last    *)
(* holds the arguments and the results of the call.                         *)
(***************************************************************************)
MaxPoint == 4
MaxSegs == 2

\* every pair of grid points, and the pairs that are TimeIntervals (end > start)
PointPairs == (0..MaxPoint) \X (0..MaxPoint)
Intervals == {p \in PointPairs : p[2] > p[1]}

\* sorted lists of at most MaxSegs non-overlapping intervals
SegLists ==
    {l \in UNION {[1..n -> Intervals] : n \in 0..MaxSegs} :
        \A k \in 1..(Len(l) - 1) : l[k][2] <= l[k + 1][1]}

\* sets of at most MaxSegs blocking intervals
BlockSets == {B \in SUBSET Intervals : Cardinality(B) <= MaxSegs}

\* both overlap tests on (a, b) and on (b, a)
call_overlap(a, b) ==
    /\ last' = [op |-> "overlap", code |-> 200, a |-> a, b |-> b,
                ab |-> _overlap(a[1], a[2], b[1], b[2]),
                ba |-> _overlap(b[1], b[2], a[1], a[2]),
                time_ab |-> _time_overlap(a[1], a[2], b[1], b[2]),
                time_ba |-> _time_overlap(b[1], b[2], a[1], a[2])]
    /\ UNCHANGED <<bookings, nextId, closures, workHours, timeOff, reqs>>

call_segment_subtract(base, blocks) ==
    /\ last' = [op |-> "segment_subtract", code |-> 200, base |-> base, blocks |-> blocks,
                out |-> _segment_subtract(base, blocks)]
    /\ UNCHANGED <<bookings, nextId, closures, workHours, timeOff, reqs>>

call_intersect_segments(a, b, c) ==
    /\ last' = [op |-> "intersect_segments", code |-> 200, a |-> a, b |-> b, c |-> c,
                ab |-> _intersect_segments(a, b), ba |-> _intersect_segments(b, a),
                ab_c |-> _intersect_segments(_intersect_segments(a, b), c),
                a_bc |-> _intersect_segments(a, _intersect_segments(b, c))]
    /\ UNCHANGED <<bookings, nextId, closures, workHours, timeOff, reqs>>

\* the functions keep no state, so a behaviour makes one call
SegmentNext ==
    /\ last.op = "init"
    /\ \/ \E a, b \in PointPairs : call_overlap(a, b)
       \/ \E base \in SegLists : \E blocks \in BlockSets : call_segment_subtract(base, blocks)
       \/ \E a, b, c \in SegLists : call_intersect_segments(a, b, c)

SegmentSpec == Init /\ [][SegmentNext]_vars

\* the grid points a list or a set of half-open segments covers
PointsOf(segs) == UNION {p[1]..(p[2] - 1) : p \in segs}

\* C21: the overlap test is symmetric, true for a non-empty interval against
\* itself and false for touching intervals, and _overlap and _time_overlap
\* give the same answer on every input.
C21_OverlapSymmetricStrict ==
    last.op = "overlap" =>
        /\ last.ab = last.ba
        /\ (last.a = last.b /\ last.a[2] > last.a[1]) => last.ab
        /\ (last.a[2] = last.b[1]) => ~last.ab
        /\ last.time_ab = last.ab /\ last.time_ba = last.ba

\* the test was put to two touching non-empty intervals
C21_Witness ==
    /\ last.op = "overlap"
    /\ last.a[2] > last.a[1] /\ last.b[2] > last.b[1] /\ last.a[2] = last.b[1]
    /\ ~last.ab /\ ~last.time_ab

\* C22: for a sorted non-overlapping base and any set of blocking intervals
\* _segment_subtract returns only segments with end > start, sorted and
\* pairwise non-overlapping, each inside one base segment and disjoint from
\* every block, and the result together with the blocks clipped to the base
\* covers the base exactly.
C22_SubtractExact ==
    last.op = "segment_subtract" =>
        LET out == last.out
        IN /\ \A k \in 1..Len(out) :
                 /\ out[k][2] > out[k][1]
                 /\ \E j \in 1..Len(last.base) :
                        last.base[j][1] <= out[k][1] /\ out[k][2] <= last.base[j][2]
                 /\ \A b \in last.blocks : ~(out[k][1] < b[2] /\ b[1] < out[k][2])
           /\ \A k \in 1..(Len(out) - 1) : out[k][2] <= out[k + 1][1]
           /\ PointsOf(SeqToSet(out)) \cap PointsOf(last.blocks) = {}
           /\ PointsOf(SeqToSet(out))
                 \cup (PointsOf(last.blocks) \cap PointsOf(SeqToSet(last.base)))
              = PointsOf(SeqToSet(last.base))

\* two overlapping blocks were taken out of a base of two segments and two
\* free segments remain
C22_Witness ==
    /\ last.op = "segment_subtract"
    /\ Len(last.base) = 2 /\ Len(last.out) = 2
    /\ \E b1, b2 \in last.blocks : b1 # b2 /\ b1[1] < b2[2] /\ b2[1] < b1[2]

\* C23: for sorted non-overlapping lists _intersect_segments returns exactly
\* the points common to both lists, the same segments whichever list comes
\* first, and the same list however three lists are grouped.
C23_IntersectExact ==
    last.op = "intersect_segments" =>
        /\ PointsOf(SeqToSet(last.ab)) = PointsOf(SeqToSet(last.a)) \cap PointsOf(SeqToSet(last.b))
        /\ \A k \in 1..Len(last.ab) : last.ab[k][2] > last.ab[k][1]
        /\ \A k \in 1..(Len(last.ab) - 1) : last.ab[k][2] <= last.ab[k + 1][1]
        /\ SeqToSet(last.ab) = SeqToSet(last.ba) /\ Len(last.ab) = Len(last.ba)
        /\ last.ab_c = last.a_bc

\* three lists of two segments each have two segments in common
C23_Witness ==
    /\ last.op = "intersect_segments"
    /\ Len(last.a) = 2 /\ Len(last.b) = 2 /\ Len(last.c) = 2
    /\ last.a # last.b /\ last.b # last.c /\ last.a # last.c
    /\ Len(last.ab_c) = 2

(***************************************************************************)
(* booking.py: completing a booking with the time spent.                   *)
(***************************************************************************)
\* round(n / d) of Python for d > 0: the nearest integer, a tie goes to the
\* even one.  The minutes used below are multiples of 15, so minutes / 60 and
\* its product with the rate are exact in binary floating point.
PyRound(n, d) ==
    LET q == n \div d
        r == n % d
    IN IF 2 * r < d THEN q
       ELSE IF 2 * r > d THEN q + 1
       ELSE IF q % 2 = 0 THEN q ELSE q + 1

\* the price a booking keeps when nothing is recomputed, estimate first
KeptPrice_Estimate(booking) ==
    IF booking.price_net_ore # None THEN booking.price_net_ore[1]
    ELSE IF booking.final_price_ore # None THEN booking.final_price_ore[1]
    ELSE 0

\* the else branch of step 5: stored final price, else estimated net price, else 0
KeptPrice(booking) ==
    IF booking.final_price_ore # None THEN booking.final_price_ore[1]
    ELSE IF booking.price_net_ore # None THEN booking.price_net_ore[1]
    ELSE 0

\* max(0, round((minutes / 60) * hourly))
TimePrice(minutes, hourly) ==
    LET r == PyRound(minutes * hourly, 60) IN IF r < 0 THEN 0 ELSE r

\* the service item step 4 fetches: None without service_item_id
CompleteServiceItem(booking) ==
    IF booking.service_item_id # 0 /\ booking.service_item_id \in DOMAIN WorkshopServiceItem
    THEN Some(WorkshopServiceItem[booking.service_item_id]) ELSE None

\* "not service_item or price_type != HOURLY or not hourly_rate_ore"
NotHourly(service_item) ==
    \/ service_item = None
    \/ service_item[1].price_type # "hourly"
    \/ service_item[1].hourly_rate_ore = None
    \/ service_item[1].hourly_rate_ore[1] = 0

\* step 5 skipping the validation of the recomputed price
CompletePrice_Unchecked(booking, payload, minutes) ==
    IF payload.use_custom_final_price
    THEN IF payload.custom_final_price_ore = None THEN <<400, 0>>
         ELSE IF payload.custom_final_price_ore[1] < 0 THEN <<400, 0>>
         ELSE <<200, payload.custom_final_price_ore[1]>>
    ELSE IF payload.charge_more_than_estimate
    THEN IF NotHourly(CompleteServiceItem(booking)) THEN <<200, 0>>
         ELSE <<200, TimePrice(minutes, CompleteServiceItem(booking)[1].hourly_rate_ore[1])>>
    ELSE <<200, KeptPrice(booking)>>

\* step 5: <<200, new_final_net_ore>> or <<400, 0>>
CompletePrice(booking, payload, minutes) ==
    IF payload.use_custom_final_price
    THEN IF payload.custom_final_price_ore = None THEN <<400, 0>>
         ELSE IF payload.custom_final_price_ore[1] < 0 THEN <<400, 0>>
         ELSE <<200, payload.custom_final_price_ore[1]>>
    ELSE IF payload.charge_more_than_estimate
    THEN IF NotHourly(CompleteServiceItem(booking)) THEN <<400, 0>>
         ELSE IF minutes <= 0 THEN <<400, 0>>
         ELSE <<200, TimePrice(minutes, CompleteServiceItem(booking)[1].hourly_rate_ore[1])>>
    ELSE <<200, KeptPrice(booking)>>

\* an early return that is never taken
AlreadyCompleted_Never(booking) == FALSE

\* step 3: "if booking.status == COMPLETED: return the booking as it is"
AlreadyCompleted(booking) == booking.status = "completed"

\* step 6: the row complete_with_time commits
Completed(booking, minutes, new_final_net_ore) ==
    [booking EXCEPT !.actual_minutes_spent = Some(minutes),
                    !.final_price_ore = Some(new_final_net_ore),
                    !.status = "completed"]

\* POST /{booking_id}/complete-with-time
complete_with_time(booking_id, payload) ==
    /\ IF ~(\E b \in bookings : b.id = booking_id)
       THEN /\ last' = [op |-> "complete_with_time", code |-> 404, id |-> booking_id,
                        payload |-> payload, before |-> None]
            /\ UNCHANGED bookings
       ELSE LET booking == CHOOSE b \in bookings : b.id = booking_id
                minutes == payload.actual_minutes_spent
                price == CompletePrice(booking, payload, minutes)
                new == Completed(booking, minutes, price[2])
                answer(code) == [op |-> "complete_with_time", code |-> code, id |-> booking_id,
                                 payload |-> payload, before |-> Some(booking)]
            IN IF minutes < 0
               THEN /\ last' = answer(400)
                    /\ UNCHANGED bookings
               ELSE IF AlreadyCompleted(booking)
               THEN /\ last' = answer(200)
                    /\ UNCHANGED bookings
               ELSE IF price[1] # 200
               THEN /\ last' = answer(price[1])
                    /\ UNCHANGED bookings
               ELSE IF ~DbAccepts(bookings, new)
               THEN /\ last' = answer(500)
                    /\ UNCHANGED bookings
               ELSE /\ bookings' = (bookings \ {booking}) \cup {new}
                    /\ last' = answer(200)
    /\ UNCHANGED <<nextId, closures, workHours, timeOff, reqs>>

\* bookings of every kind of service item, with and without an estimate
CompletePayloads ==
    {[BasePayload EXCEPT !.service_item_id = si, !.price_net_ore = net] :
        si \in 0..5, net \in {None, Some(20000)}}

CompleteUpdates == {[final_price_ore |-> Some(700)]}

CompleteStatuses == {"completed"}

CompleteMinutes == {0 - 1, 0, 30, 90}

\* a custom amount is sent only together with use_custom_final_price
CompleteRequests ==
    {[actual_minutes_spent |-> m, charge_more_than_estimate |-> ch,
      use_custom_final_price |-> cu[1], custom_final_price_ore |-> cu[2]] :
        m \in CompleteMinutes, ch \in BOOLEAN,
        cu \in {<<FALSE, None>>, <<TRUE, None>>, <<TRUE, Some(0 - 1)>>, <<TRUE, Some(500)>>}}

CompleteNext ==
    \/ \E p \in CompletePayloads : create_booking(p)
    \/ \E id \in 1..MaxId, d \in CompleteUpdates : update_booking(id, d)
    \/ \E id \in 1..MaxId, st \in CompleteStatuses : set_status(id, st)
    \/ \E id \in 1..MaxId, r \in CompleteRequests : complete_with_time(id, r)

CompleteSpec == Init /\ [][CompleteNext]_vars

\* the row of the booking the last complete_with_time named, as it is stored now
CompleteAfter == CHOOSE b \in bookings : b.id = last.id

\* the last step was a successful complete_with_time on a booking not yet COMPLETED
CompletedNow ==
    /\ last.op = "complete_with_time" /\ last.code = 200
    /\ last.before # None /\ last.before[1].status # "completed"

\* C24: a successful complete_with_time on a booking that is not yet COMPLETED
\* stores the amount of exactly one pricing policy: the custom amount when
\* use_custom_final_price is set; otherwise, when charge_more_than_estimate is
\* set, a nearest integer to minutes * rate / 60, and 0 when that is negative;
\* otherwise the stored final price, else the estimated net price, else 0.
\* The status becomes COMPLETED, the final price is not negative, and no
\* other price field of the row changes.
C24_OnePricingPolicy ==
    CompletedNow =>
        LET before == last.before[1]
            payload == last.payload
            after == CompleteAfter
            final == after.final_price_ore[1]
            exact == payload.actual_minutes_spent
                     * WorkshopServiceItem[before.service_item_id].hourly_rate_ore[1]
        IN /\ after.status = "completed"
           /\ after.final_price_ore # None /\ final >= 0
           /\ after = [before EXCEPT !.status = "completed",
                                     !.final_price_ore = after.final_price_ore,
                                     !.actual_minutes_spent = Some(payload.actual_minutes_spent)]
           /\ IF payload.use_custom_final_price
              THEN payload.custom_final_price_ore = Some(final)
              ELSE IF payload.charge_more_than_estimate
              THEN IF exact < 0 THEN final = 0
                   ELSE 60 * final - exact <= 30 /\ exact - 60 * final <= 30
              ELSE IF before.final_price_ore # None THEN final = before.final_price_ore[1]
              ELSE IF before.price_net_ore # None THEN final = before.price_net_ore[1]
              ELSE final = 0

\* a booking on the hourly item 1 was billed for 30 minutes at 1001 an hour:
\* 500.5 is a tie and 500 is stored
C24_Witness ==
    /\ CompletedNow
    /\ ~last.payload.use_custom_final_price /\ last.payload.charge_more_than_estimate
    /\ last.payload.actual_minutes_spent = 30
    /\ last.before[1].service_item_id = 1
    /\ CompleteAfter.final_price_ore = Some(500)

\* the completion request is one of the invalid ones: negative minutes, a
\* custom price that is missing or negative, or a recomputation from time
\* without an hourly item with a rate or with minutes <= 0
InvalidCompletion(booking, payload) ==
    \/ payload.actual_minutes_spent < 0
    \/ /\ payload.use_custom_final_price
       /\ \/ payload.custom_final_price_ore = None
          \/ payload.custom_final_price_ore[1] < 0
    \/ /\ ~payload.use_custom_final_price /\ payload.charge_more_than_estimate
       /\ \/ NotHourly(CompleteServiceItem(booking))
          \/ payload.actual_minutes_spent <= 0

\* the booking the last complete_with_time named is stored as it was before
CompleteUntouched ==
    /\ CompleteAfter.status = last.before[1].status
    /\ CompleteAfter.final_price_ore = last.before[1].final_price_ore
    /\ CompleteAfter.actual_minutes_spent = last.before[1].actual_minutes_spent

\* C25: on a booking that is not yet COMPLETED, and for negative minutes on
\* any booking, complete_with_time answers an invalid completion request with
\* 400 and leaves status, final_price_ore and actual_minutes_spent as they were.
C25_RejectsInvalid ==
    (/\ last.op = "complete_with_time" /\ last.before # None
     /\ InvalidCompletion(last.before[1], last.payload)
     /\ \/ last.before[1].status # "completed"
        \/ last.payload.actual_minutes_spent < 0)
        => last.code = 400 /\ CompleteUntouched

\* a recomputation from time was refused for a booking on the fixed-price item 2
C25_Witness ==
    /\ last.op = "complete_with_time" /\ last.code = 400
    /\ last.before # None /\ last.before[1].status = "booked"
    /\ last.before[1].service_item_id = 2
    /\ ~last.payload.use_custom_final_price /\ last.payload.charge_more_than_estimate
    /\ last.payload.actual_minutes_spent = 30
    /\ CompleteUntouched

\* C25 as stated, for every booking: violated by an invalid request on a
\* booking that is already COMPLETED, which is answered 200
C25_RejectsInvalidAlways ==
    (/\ last.op = "complete_with_time" /\ last.before # None
     /\ InvalidCompletion(last.before[1], last.payload))
        => last.code = 400 /\ CompleteUntouched

(***************************************************************************)
(* auto_schedule: validation, re-validation and alternatives.              *)
(***************************************************************************)
\* what a request may carry besides its slot: nothing, a vat_percent of 101,
\* a negative net or gross price, or the truck (car 2, too large for bay 2)
AutoExtras == {"none", "vat", "net", "gross", "truck"}

\* the rows stored beforehand: 45 minutes or an hour from 08:00, with or
\* without an hour of buffer after, for mechanic 1 or nobody
AutoCreates ==
    {[BasePayload EXCEPT !.bay_id = b, !.end_at = e, !.buffer_after_min = ba,
                         !.assigned_user_id = u] :
        b \in {1, 2}, e \in {Tick(0) + 45, Tick(1)}, ba \in {0, 60}, u \in {0, 1}}

\* the requests: the hour from 08:00 or an empty interval
AutoPayloads ==
    {[BasePayload EXCEPT !.bay_id = b, !.start_at = s, !.assigned_user_id = u,
                         !.vat_percent = IF x = "vat" THEN Some(101) ELSE None,
                         !.price_net_ore = IF x = "net" THEN Some(0 - 1) ELSE None,
                         !.price_gross_ore = IF x = "gross" THEN Some(0 - 1) ELSE None,
                         !.car_id = IF x = "truck" THEN 2 ELSE 0] :
        b \in {1, 2}, s \in {Tick(0), Tick(1)}, u \in {0, 1, 2}, x \in AutoExtras}

AutoNext ==
    \/ \E p \in AutoCreates : create_booking(p)
    \/ \E p \in AutoPayloads : auto_schedule(p)

AutoSpec == Init /\ [][AutoNext]_vars

\* the payload has one of the validation errors: end_at <= start_at, a
\* vat_percent outside 0..100, a negative price, a vehicle the bay cannot take
ValidationError(payload) ==
    \/ payload.end_at <= payload.start_at
    \/ AutoPriceCheck(payload) # 200
    \/ _validate_vehicle_vs_bay(payload.bay_id, AutoCar(payload)) # 200

\* C26: auto_schedule answers a payload with a validation error with 400,
\* whatever the bay and the mechanic hold, and stores no booking.
C26_ValidationBeforeConflict ==
    [][\A p \in AutoPayloads :
          (auto_schedule(p) /\ ValidationError(p))
              => (last'.code = 400 /\ bookings' = bookings)]_vars

\* the alternative is free to book: no booking of its bay has an effective
\* interval overlapping it, no closure of the bay overlaps it, and it lies
\* inside one free segment of its mechanic
Admissible(alt) ==
    /\ ~ \E b \in bookings :
            b.bay_id = alt.bay_id /\ EffStart(b) < alt.end_at /\ alt.start_at < EffEnd(b)
    /\ ~ \E c \in closures :
            c.bay_id = alt.bay_id /\ c.start_at < alt.end_at /\ alt.start_at < c.end_at
    /\ \E i \in 1..Len(DayFreeSegments(alt.user_id, alt.start_at)) :
            /\ DayFreeSegments(alt.user_id, alt.start_at)[i][1] <= alt.start_at
            /\ alt.end_at <= DayFreeSegments(alt.user_id, alt.start_at)[i][2]

\* the same mechanic 15, 30, 45 or 60 minutes later, or another mechanic in the same slot
AlternativeFor(payload, alt) ==
    /\ alt.bay_id = payload.bay_id
    /\ \/ /\ alt.user_id = payload.assigned_user_id
          /\ \E k \in 1..4 : /\ alt.start_at = payload.start_at + 15 * k
                              /\ alt.end_at = payload.end_at + 15 * k
       \/ /\ alt.user_id # payload.assigned_user_id
          /\ alt.user_id \in _employees_in_workshop(payload.workshop_id)
          /\ alt.start_at = payload.start_at /\ alt.end_at = payload.end_at

\* C27: when the re-validation of auto_schedule finds the bay or the
\* requested mechanic taken, the answer is 409, the stored bookings are
\* unchanged, at most one alternative is returned, and an alternative
\* returned is free to book and is the same mechanic shifted by 15 to 60
\* minutes or the same slot with another mechanic.
C27_AlternativeAdmissible ==
    [][\A p \in AutoPayloads :
          (/\ auto_schedule(p)
           /\ AutoScheduleChecks(bookings, closures, workHours, timeOff, p) = 409)
              => /\ last'.code = 409 /\ bookings' = bookings
                 /\ Len(last'.alternatives) <= 1
                 /\ \A i \in 1..Len(last'.alternatives) :
                       /\ AlternativeFor(p, last'.alternatives[i])
                       /\ Admissible(last'.alternatives[i])]_vars

(***************************************************************************)
(* Status changes and availability.                                        *)
(***************************************************************************)
\* bookings of mechanic 1 on bay 1 in the first two hours
StatusPayloads ==
    {[BasePayload EXCEPT !.start_at = Tick(i), !.end_at = Tick(i + 1), !.assigned_user_id = 1] :
        i \in 0..1}

\* a booking is moved in time or to the other bay
StatusUpdates ==
    {[start_at |-> Tick(i), end_at |-> Tick(i + 1)] : i \in 0..1} \cup {[bay_id |-> b] : b \in {1, 2}}

StatusChanges == {"booked", "cancelled", "completed"}

StatusNext ==
    \/ \E p \in StatusPayloads : create_booking(p)
    \/ \E id \in 1..MaxId, d \in StatusUpdates : update_booking(id, d)
    \/ \E id \in 1..MaxId, st \in StatusChanges : set_status(id, st)
    \/ \E id \in 1..MaxId : delete_booking(id)

StatusSpec == Init /\ [][StatusNext]_vars

\* the questions asked: every bay and hour of the morning, for mechanic 1
StatusQueries == {1, 2} \X {1} \X {<<Tick(i), Tick(i + 1)>> : i \in 0..MaxTick}

\* the four availability answers on the bookings bks for bay q[1], mechanic
\* q[2] and the interval q[3]: _bay_slot_is_free, the availability check,
\* _user_is_available and the conflict check before a commit
StatusAnswers(bks) ==
    [q \in StatusQueries |->
        <<_bay_slot_is_free(bks, closures, q[1], q[3][1], q[3][2]),
          _ensure_workshop_and_bay(1, q[1]) = 200
              /\ _assert_no_conflicts(bks, closures, 0, q[1], q[3][1], q[3][2], 0, 0) = 200,
          _user_is_available(bks, workHours, timeOff, q[2], q[3][1], q[3][2]),
          CreatePrecheck(bks, closures,
                         [BasePayload EXCEPT !.bay_id = q[1], !.start_at = q[3][1],
                                             !.end_at = q[3][2]])>>]

\* the same rows, all with status BOOKED
AllBooked(bks) == {[b EXCEPT !.status = "booked"] : b \in bks}

\* some answer that was "taken" before the step is "free" after it
SlotFreed ==
    \E q \in StatusQueries :
        \/ \E n \in 1..3 : ~StatusAnswers(bookings)[q][n] /\ StatusAnswers(bookings')[q][n]
        \/ StatusAnswers(bookings)[q][4] # 200 /\ StatusAnswers(bookings')[q][4] = 200

\* C28: bookings block whatever their status.  The four availability answers
\* are those of the same rows with status BOOKED, a set_status step changes
\* none of them, and a step after which a taken slot is free is a
\* delete_booking or an update_booking that moved a booking.
C28_StatusNeverFrees ==
    [][/\ StatusAnswers(bookings) = StatusAnswers(AllBooked(bookings))
       /\ last'.op = "set_status" => StatusAnswers(bookings') = StatusAnswers(bookings)
       /\ SlotFreed => last'.op \in {"delete_booking", "update_booking"}]_vars

\* a booking that holds bay 1 and mechanic 1 at 08:00 has just been cancelled,
\* and neither is free at 08:00
C28_Witness ==
    /\ last.op = "set_status" /\ last.code = 200
    /\ \E b \in bookings : /\ b.status = "cancelled" /\ b.bay_id = 1
                            /\ b.assigned_user_id = 1 /\ b.start_at = Tick(0)
    /\ ~StatusAnswers(bookings)[<<1, 1, <<Tick(0), Tick(1)>>>>][1]
    /\ ~StatusAnswers(bookings)[<<1, 1, <<Tick(0), Tick(1)>>>>][2]
    /\ ~StatusAnswers(bookings)[<<1, 1, <<Tick(0), Tick(1)>>>>][3]
    /\ StatusAnswers(bookings)[<<1, 1, <<Tick(0), Tick(1)>>>>][4] = 409

(***************************************************************************)
(* Time off on the two paths of the planner.                               *)
(***************************************************************************)
\* every time off of the mechanic ends by start_at or starts at end_at or later
TimeOffApart(user_id, start_at, end_at) ==
    \A t \in timeOff : t.user_id = user_id => (t.end_at <= start_at \/ end_at <= t.start_at)

\* the fragmented path leaves the interval as it is without the time off
TimeOffKeepsSegments(user_id, start_at, end_at) ==
    _user_free_segments({}, workHours, timeOff, user_id, start_at, end_at)
        = _user_free_segments({}, workHours, {}, user_id, start_at, end_at)

\* C29: time off is a half-open interval.  A time off that ends exactly at
\* the start of the queried interval, or starts exactly at its end, does
\* not change the answer of _user_is_available, and _user_timeoff_overlaps
\* reports an overlap exactly when _user_free_segments takes something away
\* from the interval because of the time off.
C29_TimeOffHalfOpen ==
    \A q \in CalQueries :
        /\ TimeOffApart(1, q[1], q[2])
              => (_user_is_available(bookings, workHours, timeOff, 1, q[1], q[2])
                    = _user_is_available(bookings, workHours, {}, 1, q[1], q[2]))
        /\ _user_timeoff_overlaps(timeOff, 1, q[1], q[2]) <=> ~TimeOffKeepsSegments(1, q[1], q[2])

(***************************************************************************)
(* The two conflict detectors side by side.                                *)
(***************************************************************************)
\* the "available" of check_availability for a request without buffers
AvailableWithoutBuffers(bay_id, start_at, end_at) ==
    /\ _ensure_workshop_and_bay(WorkshopBay[bay_id].workshop_id, bay_id) = 200
    /\ _assert_no_conflicts(bookings, closures, 0, bay_id, start_at, end_at, 0, 0) = 200

\* C30: the two conflict detectors agree.  For every bay and every interval,
\* check_availability with zero request buffers reports available = true
\* exactly when _bay_slot_is_free returns true.
C30_DetectorsAgree ==
    \A bay \in {1, 2}, q \in BayQueries :
        AvailableWithoutBuffers(bay, q[1], q[2])
            <=> _bay_slot_is_free(bookings, closures, bay, q[1], q[2])

EditPayloads ==
    {[BasePayload EXCEPT !.bay_id = b, !.start_at = Tick(i), !.end_at = Tick(i + 1)] :
        b \in {1, 2}, i \in 0..1}

\* a move by half an hour or an hour, an empty interval, a move to bay 2, to
\* bay 3 of the other workshop or to the unknown bay 9, the truck as the
\* car, an hour of buffer after
EditUpdates ==
    {[start_at |-> Tick(0) + 30, end_at |-> Tick(1) + 30],
     [start_at |-> Tick(1), end_at |-> Tick(2)],
     [start_at |-> Tick(1), end_at |-> Tick(1)],
     [bay_id |-> 2], [bay_id |-> 3], [bay_id |-> 9],
     [car_id |-> 2], [buffer_after_min |-> 60]}

EditNext ==
    \/ \E p \in EditPayloads : create_booking(p)
    \/ \E id \in 1..MaxId, d \in EditUpdates : update_booking(id, d)

EditSpec == BayInit /\ [][EditNext]_vars

\* the stored booking with this id
Stored(booking_id) == CHOOSE b \in bookings : b.id = booking_id

\* C36: an update_booking that fails leaves every stored booking as it was,
\* in every field, and the answer to an update does not depend on the
\* interval the booking itself held before: it is the answer the same
\* values get when the booking's own row is not in the table.
C36_FailedUpdateKeepsBooking ==
    [][\A id \in 1..MaxId, d \in EditUpdates :
          (update_booking(id, d) /\ \E b \in bookings : b.id = id)
              => /\ last'.code # 200 => bookings' = bookings
                 /\ last'.code \in {400, 404, 409}
                       => last'.code = UpdateCheck(bookings \ {Stored(id)}, closures,
                                                  ApplyUpdate(Stored(id), d))
                 /\ UpdateCheck(bookings \ {Stored(id)}, closures, ApplyUpdate(Stored(id), d)) = 200
                       => last'.code \in {200, 500}]_vars

\* a booking was moved by half an hour onto its own previous interval, and
\* an update of a stored booking was refused with 409
C36_Witness ==
    /\ last.op = "update_booking" /\ last.code = 409
    /\ \E b \in bookings : b.start_at = Tick(0) + 30 /\ b.end_at = Tick(1) + 30

(***************************************************************************)
(* The mechanic score on its own.                                          *)
(***************************************************************************)
\* four bookings of the first two hours that the table can hold together:
\* three of mechanic 1 one after the other, one of mechanic 2
ScoreBookings ==
    {NewBooking([BasePayload EXCEPT !.bay_id = x[1], !.start_at = x[2], !.end_at = x[3],
                                    !.assigned_user_id = x[4]], x[5]) :
        x \in {<<1, Tick(0), Tick(0) + 20, 1, 1>>, <<2, Tick(0) + 20, Tick(0) + 40, 1, 2>>,
               <<1, Tick(0) + 40, Tick(2), 1, 3>>, <<2, Tick(1), Tick(2), 2, 4>>}}

ScoreWindows == {<<Tick(0), Tick(1)>>, <<Tick(1), Tick(2)>>}

\* one call of _score_mechanic on a table bks
call_score_mechanic(bks, user_id, window, prefer_user_id) ==
    /\ last' = [op |-> "score_mechanic", code |-> 200, bks |-> bks, user_id |-> user_id,
                window |-> window, prefer_user_id |-> prefer_user_id,
                score |-> _score_mechanic(bks, user_id, window[1], window[2], prefer_user_id)]
    /\ UNCHANGED <<bookings, nextId, closures, workHours, timeOff, reqs>>

ScoreNext ==
    /\ last.op = "init"
    /\ \E bks \in SUBSET ScoreBookings, u \in {1, 2}, w \in ScoreWindows, pr \in {0, 1, 2} :
          call_score_mechanic(bks, u, w, pr)

ScoreSpec == Init /\ [][ScoreNext]_vars

\* the bookings of bks assigned to the mechanic that overlap the window
LoadRows(bks, user_id, window) ==
    {b \in bks : b.assigned_user_id = user_id /\ b.start_at < window[2] /\ window[1] < b.end_at}

\* C34: the score is 50, plus 30, 20, 10 or 0 for 0, 1, 2 or more bookings
\* of the mechanic overlapping the window, plus 10 for the preferred
\* mechanic; it lies between 50 and 90, and one more booking in the table
\* never raises it.
C34_ScoreFormula ==
    last.op = "score_mechanic" =>
        LET load == Cardinality(LoadRows(last.bks, last.user_id, last.window))
            bonus == CASE load = 0 -> 30 [] load = 1 -> 20 [] load = 2 -> 10 [] OTHER -> 0
            pref == IF last.user_id = last.prefer_user_id THEN 10 ELSE 0
        IN /\ last.score = 50 + bonus + pref
           /\ 50 <= last.score /\ last.score <= 90
           /\ \A b \in ScoreBookings :
                 _score_mechanic(last.bks \cup {b}, last.user_id, last.window[1], last.window[2],
                                 last.prefer_user_id) <= last.score

\* the preferred mechanic 1 with three bookings in the window scores 60
C34_Witness ==
    /\ last.op = "score_mechanic"
    /\ Cardinality(LoadRows(last.bks, last.user_id, last.window)) = 3
    /\ last.user_id = 1 /\ last.prefer_user_id = 1
    /\ last.score = 60

(***************************************************************************)
(* The planner asked for a vehicle, a granularity and an order.            *)
(***************************************************************************)
\* requests for up to three contiguous hours before 10:00: for the car without
\* a profile or for the truck, shuffled or least busy first, with a lead time
\* that puts the first scan time at 08:00 or at 08:07
FindRequests ==
    {[BaseRequest EXCEPT !.registration_number = reg, !.assignment_strategy = st,
                         !.min_lead_time_min = lead, !.latest_end = Some(Tick(2))] :
        reg \in {"ABC123", "TRK001"}, st \in {"random", "least_busy"}, lead \in {30, 37}}

FindNext ==
    \/ \E p \in PlanBookings : create_booking(p)
    \/ /\ last.op # "availability_auto"
       /\ \E p \in FindRequests : \E orc \in Orcs(Max2(1, p.num_proposals)) :
             availability_auto(p, PlanNow, orc)

FindSpec == Init /\ [][FindNext]_vars

C32_StartOnGranularity ==
    (Answered /\ last.code = 200) =>
        \A i \in 1..Len(last.proposals) :
            last.proposals[i].start_at % last.p.interval_granularity_min = 0

\* the key _least_busy_order sorts a mechanic by for the slot of a proposal
BusyKey(prop) ==
    <<Cardinality(LoadRows(bookings, prop.assigned_user_id, <<prop.start_at, prop.end_at>>)),
      prop.assigned_user_id>>

\* C35: with the strategy least_busy, the contiguous proposals for one bay
\* and one start time list their mechanics by ascending number of
\* overlapping bookings, ties by ascending user id.
C35_LeastBusyFirst ==
    (Answered /\ last.code = 200 /\ last.p.assignment_strategy = "least_busy") =>
        \A i, j \in 1..Len(last.proposals) :
            LET a == last.proposals[i]
                b == last.proposals[j]
            IN (i < j /\ a.parts = <<>> /\ b.parts = <<>>
                /\ a.bay_id = b.bay_id /\ a.start_at = b.start_at)
               => \/ BusyKey(a)[1] < BusyKey(b)[1]
                  \/ (BusyKey(a)[1] = BusyKey(b)[1] /\ BusyKey(a)[2] < BusyKey(b)[2])

(***************************************************************************)
(* The skip-ahead of the scan, step by step, over long buffers.            *)
(***************************************************************************)
\* one hour on a bay from 08:00, cleaned up after for one or three hours
SkipBookings ==
    {[BasePayload EXCEPT !.bay_id = bay, !.buffer_after_min = ba] :
        bay \in {1, 2}, ba \in {60, 180}}

\* one hour wanted, up to one hour past the last tick
SkipRequests ==
    {[BaseRequest EXCEPT !.latest_end = Some(Tick(MaxTick + 1)), !.num_proposals = n] :
        n \in {1, 2}}

SkipNext ==
    \/ /\ ~Scanning
       /\ \E p \in SkipBookings : create_booking(p)
    \/ \E p \in SkipRequests : \E orc \in ScanOrcs(Max2(1, p.num_proposals)) :
          ScanStart(p, PlanNow, orc)
    \/ ScanAdvance

SkipSpec == Init /\ [][SkipNext]_vars

\* no stored booking of the bay reaches into [s, e) with its buffers, and no
\* closure of the bay overlaps it
BayIsFree(bay, s, e) ==
    /\ ~ \E b \in bookings : b.bay_id = bay /\ EffStart(b) < e /\ s < EffEnd(b)
    /\ ~ \E c \in closures : c.bay_id = bay /\ c.start_at < e /\ s < c.end_at

\* at u some mechanic's working window covers the duration and some bay is free
CoverAndFreeBay(st, u) ==
    /\ \E m \in st.employees : WindowCovers(m, u, u + st.duration_min)
    /\ \E bay \in st.bays : BayIsFree(bay, u, u + st.duration_min)

\* C33: the skip-ahead is sound and exact.  When it moves the scan from t to
\* t', a mechanic's working window covers [t', t' + duration) and a bay is
\* free for it, and at no minute u with t <= u < t' both hold; when it finds
\* nothing, both hold at no minute from t that ends by latest_end.
C33_SkipSoundAndExact ==
    [][(last.op = "availability_auto" /\ last.pc = "skip" /\ last'.pc # "skip") =>
          IF last'.pc = "done"
          THEN \A u \in last.current..(last.latest_end - last.duration_min) :
                  ~CoverAndFreeBay(last, u)
          ELSE /\ CoverAndFreeBay(last, last'.current)
               /\ \A u \in last.current..(last'.current - 1) : ~CoverAndFreeBay(last, u)]_vars

(***************************************************************************)
(* Fragmented proposals: the interval and the parts.                       *)
(***************************************************************************)
\* C38: a fragmented proposal starts where its first listed part starts and
\* ends where its last listed part ends, also when several mechanics can
\* cover the duration with different parts.
C38_FragmentSpansParts ==
    (Answered /\ last.code = 200) =>
        \A i \in 1..Len(last.proposals) :
            LET prop == last.proposals[i]
            IN prop.parts # <<>> =>
                  /\ prop.start_at = prop.parts[1][1]
                  /\ prop.end_at = prop.parts[Len(prop.parts)][2]

(***************************************************************************)
(* From search to commit: a proposal sent back to auto_schedule.           *)
(***************************************************************************)
\* one hour on a bay from 08:00, for mechanic 1 or nobody, cleaned up after
\* for no time, one hour or three hours
RoundBookings ==
    {[BasePayload EXCEPT !.bay_id = bay, !.assigned_user_id = u, !.buffer_after_min = ba] :
        bay \in {1, 2}, u \in {0, 1}, ba \in {0, 60, 180}}

\* requests without a vehicle, from now or from the last tick on
RoundRequests ==
    {[BaseRequest EXCEPT !.registration_number = "", !.earliest_from = ef,
                         !.latest_end = Some(Tick(MaxTick + 1)), !.num_proposals = n] :
        ef \in {None, Some(Tick(MaxTick))}, n \in {1, 3}}

\* the AutoScheduleRequest a client builds from a contiguous proposal: its
\* bay, mechanic, start and end, no vehicle, zero buffers
ProposalPayload(p, prop) ==
    [BasePayload EXCEPT !.workshop_id = p.workshop_id, !.bay_id = prop.bay_id,
                        !.start_at = prop.start_at, !.end_at = prop.end_at,
                        !.assigned_user_id = prop.assigned_user_id]

\* the client selects one contiguous proposal of the answer and submits it
commit_proposal ==
    /\ Answered /\ last.code = 200
    /\ \E i \in 1..Len(last.proposals) :
          /\ last.proposals[i].parts = <<>>
          /\ auto_schedule(ProposalPayload(last.p, last.proposals[i]))

RoundNext ==
    \/ \E p \in RoundBookings : create_booking(p)
    \/ /\ last.op # "availability_auto"
       /\ \E p \in RoundRequests : \E orc \in Orcs(Max2(1, p.num_proposals)) :
             availability_auto(p, PlanNow, orc)
    \/ commit_proposal

RoundSpec == Init /\ [][RoundNext]_vars

\* C37: a contiguous proposal of an answer to a request without a vehicle,
\* submitted unchanged to auto_schedule with zero buffers while nothing was
\* written in between, passes the re-validation and is stored as a booking
\* with the status booked on the proposed bay, mechanic, start and end.
C37_ProposalCommits ==
    [][(Answered /\ last.code = 200 /\ last.p.registration_number = ""
        /\ last'.op = "auto_schedule")
       => /\ last'.code = 200
          /\ \E i \in 1..Len(last.proposals) : \E b \in bookings' \ bookings :
                /\ last.proposals[i].parts = <<>>
                /\ b.status = "booked"
                /\ b.bay_id = last.proposals[i].bay_id
                /\ b.assigned_user_id = last.proposals[i].assigned_user_id
                /\ b.start_at = last.proposals[i].start_at
                /\ b.end_at = last.proposals[i].end_at
                /\ b.buffer_before_min = 0 /\ b.buffer_after_min = 0]_vars

(***************************************************************************)
(* Exclusivity of bays and mechanics.                                      *)
(***************************************************************************)
\* C2: after any sequence of create_booking, auto_schedule, update_booking,
\* set_status and delete_booking requests executed one after the other, no two
\* stored bookings of the same bay have overlapping effective intervals.
C2_BayExclusive ==
    \A a \in bookings : \A b \in bookings :
        (a.id # b.id /\ a.bay_id = b.bay_id) => ~EffOverlap(a, b)

\* two bookings of one bay stored back to back, the first one's buffer_after
\* filling the gap exactly, after an update went through
C2_Witness ==
    /\ last.op = "update_booking" /\ last.code = 200
    /\ \E a \in bookings : \E b \in bookings :
          /\ a.id # b.id /\ a.bay_id = b.bay_id
          /\ a.buffer_after_min > 0
          /\ EffEnd(a) = EffStart(b)

\* C3: after any sequence of create_booking, auto_schedule and update_booking
\* requests, no two stored bookings with the same assigned_user_id have
\* overlapping effective intervals, whichever bays they are in.
C3_MechanicExclusive ==
    \A a \in bookings : \A b \in bookings :
        (a.id # b.id /\ a.assigned_user_id # 0 /\ a.assigned_user_id = b.assigned_user_id)
            => ~EffOverlap(a, b)

====
